---- MODULE Spec2Model ----
(***************************************************************************)
(* A model of the QCA8K switch driver (drivers/net/dsa/qca): the paged     *)
(* MDIO register transport of qca8k.c, its busy-wait helpers, the ATU      *)
(* (forwarding database) and VTU (VLAN table) engines and the port         *)
(* operations of qca8k-common.c, and qca8k_setup, run against a simulated  *)
(* switch: an MDIO slave with a page register, a register file banked by   *)
(* page, and an address table and a VLAN table driven by commands.         *)
(***************************************************************************)
EXTENDS Integers, Sequences, FiniteSets, TLC

VARIABLES
    qca8k_current_page,  \* qca8k.c:28, the module-level page cache
    hw,                  \* per switch: selected page, register file, address
                         \* table, VLAN table, and of its handle the reg_mutex,
                         \* priv->port_mtu and each port's bridge_dev
    live,                \* the switches that have a handle (priv) from probe
    last,                \* ghost: the last driver call, its bus transfers and
                         \* its trace of switch commands and callbacks
    lastSel,             \* ghost: page of the previous successful page-select
    thr                  \* the threads inside a call of the driver: the call,
                         \* the place in its code, its local variables and
                         \* the locks it holds

varsT == <<qca8k_current_page, hw, live, last, lastSel>>

vars == <<varsT, thr>>

(***************************************************************************)
(* Bounds of the model.                                                    *)
(***************************************************************************)
\* A call's injected transport fault hits one of its first MaxFault bus transfers.
MaxFault == 3

\* A thread makes at most MaxCalls calls.
MaxCalls == 1

\* The registration of the memory-mapped switch is deferred at most
\* MaxDefer times.
MaxDefer == 3

\* The failing PHYs of the loopback test fail for at most MaxBadResets
\* resets of the SerDes.
MaxBadResets == 3

\* The poll deadline passes after at most MaxPoll polls.
MaxPoll == 2

\* The capacity of the address table and the bound of its walk (2048 in
\* qca8k.h), scaled down.
QCA8K_NUM_FDB_RECORDS == 3

(***************************************************************************)
(* Bind(x, K) is K applied to x: the result of a call, named once and used  *)
(* in what follows it.                                                     *)
(***************************************************************************)
Bind(x, K(_)) == K(x)

\* ret = f(...); if (ret) return ret; then the rest of the function.
Then(r, K(_)) ==
    Bind(r, LAMBDA x : IF x.ret # 0 THEN [c |-> x.c, ret |-> x.ret] ELSE K(x.c))

\* A call whose result the caller does not look at, and a call without one.
Ignore(r) == [c |-> r.c, ret |-> 0]

Void(c) == [c |-> c, ret |-> 0]

(***************************************************************************)
(* Arithmetic.  A u16 is an integer below 2^16; a u32 is the pair          *)
(* <<low word, high word>> of its 16-bit halves.                           *)
(***************************************************************************)
U16 == 65536

RECURSIVE BitAnd(_, _)
BitAnd(a, b) ==
    IF a = 0 \/ b = 0 THEN 0
    ELSE (a % 2) * (b % 2) + 2 * BitAnd(a \div 2, b \div 2)

BitOr(a, b) == a + b - BitAnd(a, b)

Shr(a, n) == a \div 2^n

\* The u32 of an integer below 2^31.
W(n) == <<n % U16, n \div U16>>

Zero32 == <<0, 0>>

And32(a, b) == <<BitAnd(a[1], b[1]), BitAnd(a[2], b[2])>>

Or32(a, b) == <<BitOr(a[1], b[1]), BitOr(a[2], b[2])>>

Not32(a) == <<(U16 - 1) - a[1], (U16 - 1) - a[2]>>

Shl32(a, n) ==
    IF n >= 16 THEN <<0, (a[1] * 2^(n - 16)) % U16>>
    ELSE <<(a[1] * 2^n) % U16, ((a[2] * 2^n) % U16) + ((a[1] * 2^n) \div U16)>>

Shr32(a, n) ==
    IF n >= 16 THEN <<a[2] \div 2^(n - 16), 0>>
    ELSE <<(a[1] \div 2^n) + (a[2] % 2^n) * 2^(16 - n), a[2] \div 2^n>>

\* BIT(n) as a u32.
Bit32(n) == Shl32(W(1), n)

(***************************************************************************)
(* Error values (negative errno).                                          *)
(***************************************************************************)
EIO == -5
ETIMEDOUT == -110
EINVAL == -22
ENODEV == -19

(***************************************************************************)
(* qca8k_split_addr: the (page, r2, r1) decomposition of a register        *)
(* address.                                                                *)
(***************************************************************************)
qca8k_split_addr(regaddr) ==
    LET a1 == Shr(regaddr, 1)
        a2 == Shr(a1, 5)
        a3 == Shr(a2, 3)
    IN [r1 |-> BitAnd(a1, 30), r2 |-> BitAnd(a2, 7), page |-> BitAnd(a3, 1023)]

\* The page cache's initial value: no 10-bit page equals it.
NoPage == 65535

\* The MDIO address of the page register, and the base of the data addresses.
PagePhy == 24
DataPhy == 16

(***************************************************************************)
(* Registers of the modelled address map.                                  *)
(***************************************************************************)
QCA8K_REG_MASK_CTRL == 0
QCA8K_REG_MODULE_EN == 48
QCA8K_REG_MIB == 52
QCA8K_MDIO_MASTER_CTRL == 60
QCA8K_NUM_PORTS == 7
QCA8K_REG_PORT_STATUS(i) == 124 + i * 4

\* General-purpose registers the register accessors are exercised on: 0x10 and
\* 0x14 share page 0, 0x210 is the register of page 1 at the bus position of 0x10.
RegAddrs == {16, 20, 528}

\* Values written: both 16-bit halves non-zero and different, or zero.
V1 == <<65534, 32769>>
Vals == {Zero32, V1}

\* What the switch's ID register reads: device id 0x13 in bits 15:8, revision 2.
QCA8K_ID_QCA8337 == 19
MaskCtrlReset == W(QCA8K_ID_QCA8337 * 256 + 2)

Handles == {1, 2}

\* Pages the modelled registers live on; the page a switch selects at power-on
\* or reset is one of them.
Pages == {0, 1}

(***************************************************************************)
(* The simulated switch.  Its register file maps (page, r2, regnum) to a   *)
(* 16-bit word; words at their reset value are not stored.                 *)
(***************************************************************************)
RegDefault(loc) ==
    LET m == qca8k_split_addr(QCA8K_REG_MASK_CTRL)
    IN IF loc = <<m.page, m.r2, m.r1>> THEN MaskCtrlReset[1]
       ELSE IF loc = <<m.page, m.r2, m.r1 + 1>> THEN MaskCtrlReset[2]
       ELSE 0

RegGet(regs, loc) == IF loc \in DOMAIN regs THEN regs[loc] ELSE RegDefault(loc)

NoRegs == [l \in {} |-> 0]

RegPut(regs, loc, w) ==
    IF w = RegDefault(loc)
    THEN [l \in DOMAIN regs \ {loc} |-> regs[l]] @@ NoRegs
    ELSE (loc :> w) @@ regs

LoLoc(a) == Bind(qca8k_split_addr(a), LAMBDA s : <<s.page, s.r2, s.r1>>)

HiLoc(a) == Bind(qca8k_split_addr(a), LAMBDA s : <<s.page, s.r2, s.r1 + 1>>)

\* The 32-bit content of the register at flat address a in the switch's file.
HwReg(regs, a) == <<RegGet(regs, LoLoc(a)), RegGet(regs, HiLoc(a))>>

(***************************************************************************)
(* The address table (ATU) of the simulated switch: a set of entries       *)
(* [vid, mac, port_mask, aging] with at most one entry per (vid, mac) and  *)
(* at most QCA8K_NUM_FDB_RECORDS entries, driven by commands written to    *)
(* the ATU function register, with the entry staged in the ATU data        *)
(* registers.  The table is walked in the order of (vid, mac).             *)
(***************************************************************************)
QCA8K_REG_ATU_DATA0 == 1536
QCA8K_REG_ATU_DATA1 == 1540
QCA8K_REG_ATU_DATA2 == 1544
QCA8K_REG_ATU_FUNC == 1548
QCA8K_FDB_FLUSH == 1
QCA8K_FDB_LOAD == 2
QCA8K_FDB_PURGE == 3
QCA8K_FDB_NEXT == 6

ZeroFdb == [vid |-> 0, port_mask |-> 0, aging |-> 0, mac |-> <<0, 0, 0, 0, 0, 0>>]

\* The entry staged in the data registers: vid 83:72, aging 67:64, port mask
\* 54:48, mac 47:0.
HwAtuEntry(regs) ==
    Bind(<<HwReg(regs, QCA8K_REG_ATU_DATA0), HwReg(regs, QCA8K_REG_ATU_DATA1),
           HwReg(regs, QCA8K_REG_ATU_DATA2)>>, LAMBDA d :
        [vid |-> (d[3][1] \div 256) + (d[3][2] % 16) * 256,
         port_mask |-> d[2][2] % 128,
         aging |-> d[3][1] % 16,
         mac |-> <<d[2][1] \div 256, d[2][1] % 256, d[1][2] \div 256, d[1][2] % 256,
                   d[1][1] \div 256, d[1][1] % 256>>])

HwPutReg(regs, a, v) == RegPut(RegPut(regs, LoLoc(a), v[1]), HiLoc(a), v[2])

HwAtuStage(regs, e) ==
    HwPutReg(HwPutReg(HwPutReg(regs,
        QCA8K_REG_ATU_DATA0, <<e.mac[5] * 256 + e.mac[6], e.mac[3] * 256 + e.mac[4]>>),
        QCA8K_REG_ATU_DATA1, <<e.mac[1] * 256 + e.mac[2], e.port_mask>>),
        QCA8K_REG_ATU_DATA2, <<(e.vid % 256) * 256 + e.aging, e.vid \div 256>>)

SameKey(a, b) == a.vid = b.vid /\ a.mac = b.mac

AtuLess(a, b) ==
    \/ a.vid < b.vid
    \/ /\ a.vid = b.vid
       /\ \E i \in 1..6 : a.mac[i] < b.mac[i] /\ \A j \in 1..(i - 1) : a.mac[j] = b.mac[j]

AtuFirst(S) == CHOOSE e \in S : \A x \in S : x = e \/ AtuLess(e, x)

\* NEXT: the first entry after the staged key, among the entries of the port
\* when the command names one; no entry (aging 0) at the end of the table.
AtuNext(atu, cur, porten, port) ==
    Bind({e \in atu : AtuLess(cur, e) /\ (porten => (e.port_mask \div 2^port) % 2 = 1)},
         LAMBDA after : IF after # {} THEN AtuFirst(after) ELSE ZeroFdb)

\* The ATU executes the command in the function register: command 3:0, port
\* 11:8, table full flag bit 12, port enable bit 14.
AtuExec(c, E) ==
    Bind(RegGet(c.regs, LoLoc(QCA8K_REG_ATU_FUNC)), LAMBDA f :
    Bind(HwAtuEntry(c.regs), LAMBDA e :
    Bind({x \in c.atu : SameKey(x, e)}, LAMBDA old :
        IF f % 16 = QCA8K_FDB_LOAD
        THEN IF old = {} /\ Cardinality(c.atu) >= QCA8K_NUM_FDB_RECORDS
             THEN [c EXCEPT !.regs = RegPut(@, LoLoc(QCA8K_REG_ATU_FUNC),
                                            BitOr(f, 4096))]
             ELSE [c EXCEPT !.atu = (@ \ old) \cup {e}]
        ELSE IF f % 16 = QCA8K_FDB_PURGE THEN [c EXCEPT !.atu = @ \ old]
        ELSE IF f % 16 = QCA8K_FDB_FLUSH THEN [c EXCEPT !.atu = {}]
        ELSE IF f % 16 = QCA8K_FDB_NEXT
        THEN [c EXCEPT !.regs = HwAtuStage(@, AtuNext(c.atu, e,
                                    (f \div 16384) % 2 = 1, (f \div 256) % 16))]
        ELSE c)))

(***************************************************************************)
(* The VLAN table (VTU) of the simulated switch: a function from the VLAN  *)
(* ids it holds to the entry word loaded for each (the content of the VTU  *)
(* function register 0: egress mode of port i in bits 5+2i:4+2i, IVL bit   *)
(* 19, valid bit 20), with at most MaxVlans entries, driven by commands    *)
(* written to the VTU function register 1 (command 2:0, table full flag    *)
(* bit 4, vid 27:16).  What a READ of a VLAN id the table does not hold    *)
(* leaves in function register 0 is a property of the switch, its word     *)
(* miss: all zero (every port's egress mode "unmodified") or every port    *)
(* "not a member".                                                         *)
(***************************************************************************)
MaxVlans == 2

VtuNoMember == Shl32(W(16383), 4)

QCA8K_REG_VTU_FUNC0 == 1552
QCA8K_REG_VTU_FUNC1 == 1556
QCA8K_VLAN_LOAD == 2
QCA8K_VLAN_PURGE == 3
QCA8K_VLAN_READ == 6

NoVtu == [v \in {} |-> Zero32]

\* priv comes from devm_kzalloc: every port_mtu is 0; no port is in a bridge
\* (bridge_dev NULL, written 0).
NoMtu == [i \in 0..(QCA8K_NUM_PORTS - 1) |-> 0]

NoBridge == [i \in 0..(QCA8K_NUM_PORTS - 1) |-> 0]

\* priv->port_sts[].enabled of a zeroed priv.
NoSts == [i \in 0..(QCA8K_NUM_PORTS - 1) |-> FALSE]

\* priv->dsa_init of the memory-mapped variant: the delayed work is pending
\* or not, the calls of dsa_register_switch made and the result of the last
\* one, and the ESS resets and calibration runs of the attach.
NoWork == [pending |-> FALSE, tries |-> 0, ret |-> 0, released |-> FALSE,
           ess_resets |-> 0, calbs |-> 0, mac_mode |-> -1]

VtuPut(vtu, vid, e) == [v \in DOMAIN vtu \cup {vid} |-> IF v = vid THEN e ELSE vtu[v]]

VtuDrop(vtu, vid) == [v \in DOMAIN vtu \ {vid} |-> vtu[v]]

VtuExec(c, E) ==
    Bind(RegGet(c.regs, LoLoc(QCA8K_REG_VTU_FUNC1)), LAMBDA f :
    Bind(RegGet(c.regs, HiLoc(QCA8K_REG_VTU_FUNC1)) % 4096, LAMBDA vid :
        IF f % 8 = QCA8K_VLAN_READ
        THEN [c EXCEPT !.regs = HwPutReg(@, QCA8K_REG_VTU_FUNC0,
                                   IF vid \in DOMAIN c.vtu THEN c.vtu[vid] ELSE c.miss)]
        ELSE IF f % 8 = QCA8K_VLAN_LOAD
        THEN IF vid \notin DOMAIN c.vtu /\ Cardinality(DOMAIN c.vtu) >= MaxVlans
             THEN [c EXCEPT !.regs = RegPut(@, LoLoc(QCA8K_REG_VTU_FUNC1), BitOr(f, 16))]
             ELSE [c EXCEPT !.vtu = VtuPut(@, vid, HwReg(c.regs, QCA8K_REG_VTU_FUNC0))]
        ELSE IF f % 8 = QCA8K_VLAN_PURGE THEN [c EXCEPT !.vtu = VtuDrop(@, vid)]
        ELSE c))

(***************************************************************************)
(* A call's context: the page cache, the switch it talks to, the handle's  *)
(* reg_mutex, port_mtu and bridge_dev, the number of bus transfers it has  *)
(* made, their log, and the trace ev of the commands the switch was given  *)
(* and the callbacks made.                                                 *)
(* The call's environment E says which transfers fail (transfer k fails    *)
(* iff k \in E.F), for how many polls a pending command keeps its busy bit *)
(* (E.plan), after how many polls the poll deadline has passed (E.texp),   *)
(* what a PHY returns (E.pdata) and what an uninitialised u32 holds        *)
(* (E.garbage).                                                            *)
(***************************************************************************)
Ctx(h, E) ==
    [cache |-> qca8k_current_page, page |-> hw[h].page, regs |-> hw[h].regs,
     atu |-> hw[h].atu, vtu |-> hw[h].vtu, miss |-> hw[h].miss,
     mutex |-> hw[h].mutex,
     port_mtu |-> hw[h].port_mtu, bridge_dev |-> hw[h].bridge_dev,
     legacy_phy_port_mapping |-> hw[h].legacy_phy_port_mapping,
     port_sts |-> hw[h].port_sts, dsa_init |-> hw[h].dsa_init,
     busy |-> E.plan, n |-> 0, log |-> << >>, ev |-> << >>]

LogEntry(kind, page, arg, ok) == [kind |-> kind, page |-> page, arg |-> arg, ok |-> ok]

\* A command register's busy bit is bit 31: bit 15 of its high word.
BusyWord == 32768

\* The MDIO master's read flag is bit 27: bit 11 of the high word.
MdioReadWord == 2048

\* A command that never completes.
HwNever == -1

\* The command registers whose busy bit is set.
PendingCmd(regs) ==
    {r \in {QCA8K_REG_ATU_FUNC, QCA8K_REG_VTU_FUNC1, QCA8K_MDIO_MASTER_CTRL} :
        RegGet(regs, HiLoc(r)) >= BusyWord}

\* The switch completes the pending command of register r: the busy bit
\* clears; a PHY read leaves the PHY's data in the low word, an ATU or VTU
\* command acts on its table.
HwComplete(c, E, r) ==
    Bind(RegGet(c.regs, HiLoc(r)), LAMBDA hi :
    Bind([c EXCEPT !.regs = RegPut(@, HiLoc(r), hi - BitAnd(hi, BusyWord))], LAMBDA c1 :
        IF r = QCA8K_REG_ATU_FUNC THEN AtuExec(c1, E)
        ELSE IF r = QCA8K_REG_VTU_FUNC1 THEN VtuExec(c1, E)
        ELSE IF BitAnd(hi, MdioReadWord) # 0
             THEN [c1 EXCEPT !.regs = RegPut(@, LoLoc(r), E.pdata)]
             ELSE c1))

\* The MIB flush's busy bit is bit 17: bit 1 of the high word.
MibBusyWord == 2

\* Writing a command register's high word with the busy bit starts a command;
\* a flush of the MIB counters is complete at once.
HwOnWrite(c, E, loc, data) ==
    IF loc = HiLoc(QCA8K_REG_MIB)
    THEN [c EXCEPT !.regs = RegPut(@, loc, data - BitAnd(data, MibBusyWord))]
    ELSE IF data >= BusyWord
    THEN IF loc = HiLoc(QCA8K_REG_ATU_FUNC)
         THEN [c EXCEPT !.busy = E.plan,
                        !.ev = Append(@, [kind |-> "cmd",
                                  cmd |-> RegGet(c.regs, LoLoc(QCA8K_REG_ATU_FUNC)) % 16])]
         ELSE IF loc = HiLoc(QCA8K_REG_VTU_FUNC1)
         THEN [c EXCEPT !.busy = E.plan,
                        !.ev = Append(@, [kind |-> "vtu",
                                  cmd |-> RegGet(c.regs, LoLoc(QCA8K_REG_VTU_FUNC1)) % 8,
                                  vid |-> data % 4096])]
         ELSE IF loc = HiLoc(QCA8K_MDIO_MASTER_CTRL) THEN [c EXCEPT !.busy = E.plan]
         ELSE c
    ELSE c

\* Time passes with every poll of a pending command's register.
HwOnRead(c, E, loc) ==
    Bind({r \in PendingCmd(c.regs) : loc = LoLoc(r)}, LAMBDA P :
        IF P # {}
        THEN IF c.busy = 0 THEN Bind(CHOOSE r \in P : TRUE, LAMBDA r : HwComplete(c, E, r))
             ELSE IF c.busy = HwNever THEN c
             ELSE [c EXCEPT !.busy = @ - 1]
        ELSE c)

\* bus->write: a write to (0x18, 0) selects the page, a write to 0x10|r2 stores a
\* word in the selected page.  A failed transfer changes nothing in the switch.
BusWrite(c, E, phy, regnum, data) ==
    Bind([c EXCEPT !.n = @ + 1,
                   !.log = Append(@, LogEntry(IF phy = PagePhy THEN "sel" ELSE "w",
                                      c.page, IF phy = PagePhy THEN data ELSE regnum,
                                      c.n + 1 \notin E.F))], LAMBDA c1 :
    Bind(<<c.page, phy - DataPhy, regnum>>, LAMBDA loc :
        IF c1.n \in E.F THEN [c |-> c1, ret |-> EIO]
        ELSE IF phy = PagePhy
             THEN [c |-> [c1 EXCEPT !.page = data], ret |-> 0]
             ELSE [c |-> HwOnWrite([c1 EXCEPT !.regs = RegPut(@, loc, data)],
                                   E, loc, data),
                   ret |-> 0]))

\* bus->read: the word, or a negative error.
BusRead(c, E, phy, regnum) ==
    Bind(<<c.page, phy - DataPhy, regnum>>, LAMBDA loc :
    Bind(HwOnRead(c, E, loc), LAMBDA c0 :
        [c |-> [c0 EXCEPT !.n = c.n + 1,
                          !.log = Append(@, LogEntry("r", c.page, regnum,
                                                     c.n + 1 \notin E.F))],
         ret |-> IF c.n + 1 \notin E.F THEN RegGet(c0.regs, loc) ELSE EIO]))

(***************************************************************************)
(* qca8k.c: the paged transport.                                           *)
(***************************************************************************)
qca8k_mii_read32(c, E, phy_id, regnum) ==
    Bind(BusRead(c, E, phy_id, regnum), LAMBDA a :
        IF a.ret >= 0
        THEN Bind(BusRead(a.c, E, phy_id, regnum + 1), LAMBDA b :
                 IF b.ret < 0
                 THEN [c |-> b.c, ret |-> b.ret, val |-> Zero32]
                 ELSE [c |-> b.c, ret |-> 0,
                       val |-> Or32(W(a.ret), Shl32(W(b.ret), 16))])
        ELSE [c |-> a.c, ret |-> a.ret, val |-> Zero32])

\* A write of the two halves in the other order: high word at regnum.
mii_write32_swapped(c, E, phy_id, regnum, val) ==
    Bind(BusWrite(c, E, phy_id, regnum, Shr32(val, 16)[1]), LAMBDA a :
        IF a.ret >= 0
        THEN BusWrite(a.c, E, phy_id, regnum + 1, And32(val, W(U16 - 1))[1]).c
        ELSE a.c)

qca8k_mii_write32(c, E, phy_id, regnum, val) ==
    Bind(BusWrite(c, E, phy_id, regnum, And32(val, W(U16 - 1))[1]), LAMBDA a :
        IF a.ret >= 0
        THEN BusWrite(a.c, E, phy_id, regnum + 1, Shr32(val, 16)[1]).c
        ELSE a.c)

\* A page-select without the cache test.
set_page_uncached(c, E, page) ==
    Bind(BusWrite(c, E, PagePhy, 0, page), LAMBDA w :
        IF w.ret < 0 THEN [c |-> w.c, ret |-> w.ret]
        ELSE [c |-> [w.c EXCEPT !.cache = page], ret |-> 0])

qca8k_set_page(c, E, page) ==
    IF page = c.cache THEN [c |-> c, ret |-> 0]
    ELSE Bind(BusWrite(c, E, PagePhy, 0, page), LAMBDA w :
             IF w.ret < 0 THEN [c |-> w.c, ret |-> w.ret]
             ELSE [c |-> [w.c EXCEPT !.cache = page], ret |-> 0])

\* val0 is what the caller's *val holds before the call.
qca8k_read(c, E, reg, val0) ==
    Bind(qca8k_split_addr(reg), LAMBDA s :
    Bind(qca8k_set_page(c, E, s.page), LAMBDA p :
        IF p.ret < 0 THEN [c |-> p.c, ret |-> p.ret, val |-> val0]
        ELSE qca8k_mii_read32(p.c, E, DataPhy + s.r2, s.r1)))

qca8k_write(c, E, reg, val) ==
    Bind(qca8k_split_addr(reg), LAMBDA s :
    Bind(qca8k_set_page(c, E, s.page), LAMBDA p :
        IF p.ret < 0 THEN [c |-> p.c, ret |-> p.ret]
        ELSE [c |-> qca8k_mii_write32(p.c, E, DataPhy + s.r2, s.r1, val),
              ret |-> p.ret]))

\* qca8k_rmw with the value cut to the mask.
rmw_value_in_mask(c, E, reg, mask, write_val) ==
    Bind(qca8k_split_addr(reg), LAMBDA s :
    Bind(qca8k_set_page(c, E, s.page), LAMBDA p :
        IF p.ret < 0 THEN [c |-> p.c, ret |-> p.ret]
        ELSE Bind(qca8k_mii_read32(p.c, E, DataPhy + s.r2, s.r1), LAMBDA r :
                 IF r.ret < 0 THEN [c |-> r.c, ret |-> r.ret]
                 ELSE [c |-> qca8k_mii_write32(r.c, E, DataPhy + s.r2, s.r1,
                                 Or32(And32(r.val, Not32(mask)), And32(write_val, mask))),
                       ret |-> r.ret])))

qca8k_rmw(c, E, reg, mask, write_val) ==
    Bind(qca8k_split_addr(reg), LAMBDA s :
    Bind(qca8k_set_page(c, E, s.page), LAMBDA p :
        IF p.ret < 0 THEN [c |-> p.c, ret |-> p.ret]
        ELSE Bind(qca8k_mii_read32(p.c, E, DataPhy + s.r2, s.r1), LAMBDA r :
                 IF r.ret < 0 THEN [c |-> r.c, ret |-> r.ret]
                 ELSE [c |-> qca8k_mii_write32(r.c, E, DataPhy + s.r2, s.r1,
                                 Or32(And32(r.val, Not32(mask)), write_val)),
                       ret |-> r.ret])))

\* A qca8k_reg_set that writes the bits without the read of the register.
reg_set_without_read(c, E, reg, val) == qca8k_write(c, E, reg, val)

qca8k_reg_set(c, E, reg, val) == qca8k_rmw(c, E, reg, Zero32, val)

qca8k_reg_clear(c, E, reg, val) == qca8k_rmw(c, E, reg, val, Zero32)

(***************************************************************************)
(* read_poll_timeout (linux/iopoll.h), as its callers use it with no sleep *)
(* between polls: poll; stop when the condition holds; once the deadline   *)
(* has passed poll one last time; the result is 0 if the condition holds   *)
(* and -ETIMEDOUT if not.  The condition is !(val & mask) on the caller's  *)
(* val, ret1 takes what the polled function returns.                       *)
(***************************************************************************)
\* regmap_read on the memory-mapped switch of the IPQ4019: one transfer, no
\* page; *val is written on success only.
regmap_read(c, E, reg, val0) ==
    IF c.n + 1 \in E.F
    THEN [c |-> [c EXCEPT !.n = @ + 1], ret |-> EIO, val |-> val0]
    ELSE Bind(HwOnRead([c EXCEPT !.n = @ + 1], E, LoLoc(reg)), LAMBDA c1 :
             [c |-> c1, ret |-> 0, val |-> HwReg(c1.regs, reg)])

PollOp(kind, c, E, reg, val0) ==
    IF kind = "qca8k_read" THEN qca8k_read(c, E, reg, val0)
    ELSE IF kind = "regmap_read" THEN regmap_read(c, E, reg, val0)
    ELSE Bind(qca8k_split_addr(reg), LAMBDA s :
             qca8k_mii_read32(c, E, DataPhy + s.r2, s.r1))

\* The poll condition: !(val & mask); regmap_read_poll_timeout also stops on
\* a failed read.
PollCond(kind, r, mask) ==
    (kind = "regmap_read" /\ r.ret # 0) \/ And32(r.val, mask) = Zero32

PollResult(r, ret, polls) ==
    [c |-> r.c, ret |-> ret, ret1 |-> r.ret, val |-> r.val, polls |-> polls]

RECURSIVE ReadPollTimeout(_, _, _, _, _, _, _)
ReadPollTimeout(kind, c, E, reg, mask, val0, i) ==
    Bind(PollOp(kind, c, E, reg, val0), LAMBDA r :
        IF PollCond(kind, r, mask) THEN PollResult(r, 0, i)
        ELSE IF i >= E.texp
             THEN Bind(PollOp(kind, r.c, E, reg, r.val), LAMBDA q :
                      PollResult(q, IF PollCond(kind, q, mask) THEN 0
                                    ELSE ETIMEDOUT, i + 1))
             ELSE ReadPollTimeout(kind, r.c, E, reg, mask, r.val, i + 1))

\* A busy-wait that returns what its last read returned.
busy_wait_last_read(c, E, reg, mask) ==
    Bind(ReadPollTimeout("qca8k_read", c, E, reg, mask, E.garbage, 1), LAMBDA p :
        [p EXCEPT !.ret = p.ret1])

\* The tail of both busy-waits: if (ret < 0 && ret1 < 0) return ret1; return ret;
BusyWaitResult(p) ==
    [p EXCEPT !.ret = IF p.ret < 0 /\ p.ret1 < 0 THEN p.ret1 ELSE p.ret]

\* qca8k.c:238 qca8k_busy_wait; val is uninitialised before the first poll.
qca8k_busy_wait(c, E, reg, mask) ==
    Bind(ReadPollTimeout("qca8k_read", c, E, reg, mask, E.garbage, 1), BusyWaitResult)

\* qca8k.c:272 qca8k_mdio_busy_wait.
qca8k_mdio_busy_wait(c, E, reg, mask) ==
    Bind(ReadPollTimeout("qca8k_mii_read32", c, E, reg, mask, E.garbage, 1),
         BusyWaitResult)

\* qca8k-ipq4019.c:89 qca8k_busy_wait: regmap_read_poll_timeout gives the
\* read's error if there is one, else what read_poll_timeout gives.
ipq4019_busy_wait(c, E, reg, mask) ==
    Bind(ReadPollTimeout("regmap_read", c, E, reg, mask, E.garbage, 1), LAMBDA p :
        [p EXCEPT !.ret = IF p.ret1 # 0 THEN p.ret1 ELSE p.ret])

(***************************************************************************)
(* qca8k-ipq4019.c: the memory-mapped transport.  The regmap calls are one *)
(* transfer each, without a page; regmap_update_bits is the contract's     *)
(* read-modify-write: read, clear the bits of the mask, OR in the value,   *)
(* write back.                                                             *)
(***************************************************************************)
regmap_write(c, E, reg, val) ==
    IF c.n + 1 \in E.F THEN [c |-> [c EXCEPT !.n = @ + 1], ret |-> EIO]
    ELSE [c |-> HwOnWrite(HwOnWrite([c EXCEPT !.n = @ + 1,
                                              !.regs = HwPutReg(@, reg, val)],
                                    E, LoLoc(reg), val[1]),
                          E, HiLoc(reg), val[2]),
          ret |-> 0]

regmap_update_bits(c, E, reg, mask, val) ==
    Bind(regmap_read(c, E, reg, Zero32), LAMBDA r :
        IF r.ret # 0 THEN [c |-> r.c, ret |-> r.ret]
        ELSE regmap_write(r.c, E, reg, Or32(And32(r.val, Not32(mask)), val)))

regmap_set_bits(c, E, reg, bits) ==
    Bind(regmap_read(c, E, reg, Zero32), LAMBDA r :
        IF r.ret # 0 THEN [c |-> r.c, ret |-> r.ret]
        ELSE regmap_write(r.c, E, reg, Or32(r.val, bits)))

regmap_clear_bits(c, E, reg, bits) ==
    Bind(regmap_read(c, E, reg, Zero32), LAMBDA r :
        IF r.ret # 0 THEN [c |-> r.c, ret |-> r.ret]
        ELSE regmap_write(r.c, E, reg, And32(r.val, Not32(bits))))

\* qca8k-ipq4019.c:39 qca8k_rmw, :45 qca8k_reg_set, :51 qca8k_reg_clear
ipq4019_rmw(c, E, reg, mask, write_val) == regmap_update_bits(c, E, reg, mask, write_val)

ipq4019_reg_set(c, E, reg, val) == regmap_set_bits(c, E, reg, val)

ipq4019_reg_clear(c, E, reg, val) == regmap_clear_bits(c, E, reg, val)

(***************************************************************************)
(* qca8k.c: the MDIO master bridge.                                        *)
(***************************************************************************)
QCA8K_MDIO_MASTER_BUSY == Bit32(31)
QCA8K_MDIO_MASTER_EN == Bit32(30)
QCA8K_MDIO_MASTER_READ == Bit32(27)
QCA8K_MDIO_MASTER_WRITE == Zero32
QCA8K_MDIO_MASTER_PHY_ADDR(x) == Shl32(W(x), 21)
QCA8K_MDIO_MASTER_REG_ADDR(x) == Shl32(W(x), 16)
QCA8K_MDIO_MASTER_DATA(x) == W(x)
QCA8K_MDIO_MASTER_DATA_MASK == W(65535)
QCA8K_MDIO_MASTER_MAX_REG == 32
PHY_MAX_ADDR == 32

\* The data address of the MDIO master control register.
MdioPhy == DataPhy + qca8k_split_addr(QCA8K_MDIO_MASTER_CTRL).r2
MdioReg == qca8k_split_addr(QCA8K_MDIO_MASTER_CTRL).r1
MdioPage == qca8k_split_addr(QCA8K_MDIO_MASTER_CTRL).page

\* exit: the MDIO master is disabled, whatever happened before.
MdioExit(c, E, ret) ==
    [c |-> qca8k_mii_write32(c, E, MdioPhy, MdioReg, Zero32), ret |-> ret]

\* The command word of an MDIO master write.
MdioWriteCmd(phy, regnum, data) ==
    Or32(Or32(Or32(QCA8K_MDIO_MASTER_BUSY, QCA8K_MDIO_MASTER_EN),
              Or32(QCA8K_MDIO_MASTER_WRITE, QCA8K_MDIO_MASTER_PHY_ADDR(phy))),
         Or32(QCA8K_MDIO_MASTER_REG_ADDR(regnum), QCA8K_MDIO_MASTER_DATA(data)))

qca8k_mdio_write(c, E, phy, regnum, data) ==
    IF regnum >= QCA8K_MDIO_MASTER_MAX_REG THEN [c |-> c, ret |-> EINVAL]
    ELSE Bind(qca8k_set_page(c, E, MdioPage), LAMBDA p :
        IF p.ret # 0 THEN MdioExit(p.c, E, p.ret)
        ELSE Bind(qca8k_mii_write32(p.c, E, MdioPhy, MdioReg,
                                    MdioWriteCmd(phy, regnum, data)), LAMBDA w :
             Bind(qca8k_mdio_busy_wait(w, E, QCA8K_MDIO_MASTER_CTRL,
                                       QCA8K_MDIO_MASTER_BUSY),
                  LAMBDA b : MdioExit(b.c, E, b.ret))))

\* The command word of an MDIO master read.
MdioReadCmd(phy, regnum) ==
    Or32(Or32(Or32(QCA8K_MDIO_MASTER_BUSY, QCA8K_MDIO_MASTER_EN),
              Or32(QCA8K_MDIO_MASTER_READ, QCA8K_MDIO_MASTER_PHY_ADDR(phy))),
         QCA8K_MDIO_MASTER_REG_ADDR(regnum))

\* What qca8k_mdio_read returns: if (ret >= 0) ret = val & DATA_MASK.
MdioReadResult(ret, val) ==
    IF ret >= 0 THEN And32(val, QCA8K_MDIO_MASTER_DATA_MASK)[1] ELSE ret

qca8k_mdio_read(c, E, phy, regnum) ==
    IF regnum >= QCA8K_MDIO_MASTER_MAX_REG THEN [c |-> c, ret |-> EINVAL]
    ELSE Bind(qca8k_set_page(c, E, MdioPage), LAMBDA p :
        IF p.ret # 0
        THEN MdioExit(p.c, E, MdioReadResult(p.ret, MdioReadCmd(phy, regnum)))
        ELSE Bind(qca8k_mii_write32(p.c, E, MdioPhy, MdioReg,
                                    MdioReadCmd(phy, regnum)), LAMBDA w :
             Bind(qca8k_mdio_busy_wait(w, E, QCA8K_MDIO_MASTER_CTRL,
                                       QCA8K_MDIO_MASTER_BUSY), LAMBDA b :
            IF b.ret # 0
            THEN MdioExit(b.c, E, MdioReadResult(b.ret, MdioReadCmd(phy, regnum)))
            ELSE Bind(qca8k_mii_read32(b.c, E, MdioPhy, MdioReg), LAMBDA r :
                     MdioExit(r.c, E, MdioReadResult(r.ret, r.val))))))

qca8k_port_to_phy(port) == port - 1

qca8k_phy_write(c, E, legacy, port, regnum, data) ==
    qca8k_mdio_write(c, E,
        IF legacy THEN qca8k_port_to_phy(port) % PHY_MAX_ADDR ELSE port,
        regnum, data)

qca8k_phy_read(c, E, legacy, port, regnum) ==
    Bind(qca8k_mdio_read(c, E,
             IF legacy THEN qca8k_port_to_phy(port) % PHY_MAX_ADDR ELSE port,
             regnum), LAMBDA r :
        [c |-> r.c, ret |-> IF r.ret < 0 THEN 65535 ELSE r.ret])

(***************************************************************************)
(* Probe and remove (qca8k.c).                                             *)
(***************************************************************************)
QCA8K_MASK_CTRL_DEVICE_ID_MASK == W(65280)
QCA8K_MASK_CTRL_DEVICE_ID(x) == Shr32(x, 8)
QCA8K_PORT_STATUS_TXMAC == Bit32(2)
QCA8K_PORT_STATUS_RXMAC == Bit32(3)
QCA8K_PORT_STATUS_LINK_AUTO == Bit32(9)

\* id is a u8.
qca8k_read_switch_id(c, E) ==
    Bind(qca8k_read(c, E, QCA8K_REG_MASK_CTRL, E.garbage), LAMBDA r :
        [c |-> r.c,
         ret |-> IF r.ret < 0 THEN ENODEV
                 ELSE IF QCA8K_MASK_CTRL_DEVICE_ID(
                             And32(r.val, QCA8K_MASK_CTRL_DEVICE_ID_MASK))[1] % 256
                         # QCA8K_ID_QCA8337
                      THEN ENODEV ELSE 0,
         val |-> r.val])

\* qca8k_sw_probe: an optional reset GPIO pulse puts the switch in its reset
\* state (registers at their defaults, page pg selected), then the ID register
\* is read; the handle exists once the ID matched.
qca8k_sw_probe(c, E, rst, pg) ==
    qca8k_read_switch_id(
        IF rst THEN [c EXCEPT !.page = pg, !.regs = NoRegs, !.atu = {}, !.vtu = NoVtu,
                              !.port_mtu = NoMtu, !.bridge_dev = NoBridge,
                              !.legacy_phy_port_mapping = FALSE,
                              !.port_sts = NoSts]
        ELSE [c EXCEPT !.port_mtu = NoMtu, !.bridge_dev = NoBridge,
                              !.legacy_phy_port_mapping = FALSE,
                              !.port_sts = NoSts], E)

\* qca8k.c:602 qca8k_port_set_status
qca8k_port_set_status(c, E, port, enable) ==
    LET mask == IF port > 0 /\ port < 6
                THEN Or32(Or32(QCA8K_PORT_STATUS_TXMAC, QCA8K_PORT_STATUS_RXMAC),
                          QCA8K_PORT_STATUS_LINK_AUTO)
                ELSE Or32(QCA8K_PORT_STATUS_TXMAC, QCA8K_PORT_STATUS_RXMAC)
    IN IF enable
       THEN qca8k_reg_set(c, E, QCA8K_REG_PORT_STATUS(port), mask).c
       ELSE qca8k_reg_clear(c, E, QCA8K_REG_PORT_STATUS(port), mask).c

\* The fields of the port status register that a link-up writes.
QCA8K_PORT_STATUS_SPEED_10 == W(0)
QCA8K_PORT_STATUS_SPEED_100 == W(1)
QCA8K_PORT_STATUS_SPEED_1000 == W(2)
QCA8K_PORT_STATUS_TXFLOW == Bit32(4)
QCA8K_PORT_STATUS_RXFLOW == Bit32(5)
QCA8K_PORT_STATUS_DUPLEX == Bit32(6)
SPEED_10 == 10
SPEED_100 == 100
SPEED_1000 == 1000
SPEED_UNKNOWN == -1
DUPLEX_HALF == 0
DUPLEX_FULL == 1

qca8k_phylink_mac_link_down(c, E, port) == qca8k_port_set_status(c, E, port, FALSE)

\* inband is phylink_autoneg_inband(mode), cpu is dsa_is_cpu_port(ds, port).
qca8k_phylink_mac_link_up(c, E, port, inband, speed, duplex, tx_pause, rx_pause, cpu) ==
    LET reg == IF inband THEN QCA8K_PORT_STATUS_LINK_AUTO
               ELSE Or32(Or32(IF speed = SPEED_10 THEN QCA8K_PORT_STATUS_SPEED_10
                              ELSE IF speed = SPEED_100 THEN QCA8K_PORT_STATUS_SPEED_100
                              ELSE IF speed = SPEED_1000
                                   THEN QCA8K_PORT_STATUS_SPEED_1000
                              ELSE QCA8K_PORT_STATUS_LINK_AUTO,
                              IF duplex = DUPLEX_FULL THEN QCA8K_PORT_STATUS_DUPLEX
                              ELSE Zero32),
                         Or32(IF rx_pause \/ cpu THEN QCA8K_PORT_STATUS_RXFLOW
                              ELSE Zero32,
                              IF tx_pause \/ cpu THEN QCA8K_PORT_STATUS_TXFLOW
                              ELSE Zero32))
    IN qca8k_write(c, E, QCA8K_REG_PORT_STATUS(port),
                   Or32(reg, Or32(QCA8K_PORT_STATUS_TXMAC, QCA8K_PORT_STATUS_RXMAC))).c

qca8k_port_enable(c, E, port) ==
    [qca8k_port_set_status(c, E, port, TRUE) EXCEPT !.port_sts[port] = TRUE]

qca8k_port_disable(c, E, port) ==
    [qca8k_port_set_status(c, E, port, FALSE) EXCEPT !.port_sts[port] = FALSE]

\* A qca8k_set_pm that leaves out the test of the enabled flag.
RECURSIVE set_pm_every_port(_, _, _, _)
set_pm_every_port(c, E, enable, i) ==
    IF i >= QCA8K_NUM_PORTS THEN c
    ELSE set_pm_every_port(qca8k_port_set_status(c, E, i, enable), E, enable, i + 1)

\* qca8k_set_pm, from port i on.
RECURSIVE qca8k_set_pm(_, _, _, _)
qca8k_set_pm(c, E, enable, i) ==
    IF i >= QCA8K_NUM_PORTS THEN c
    ELSE qca8k_set_pm(IF ~c.port_sts[i] THEN c
                      ELSE qca8k_port_set_status(c, E, i, enable), E, enable, i + 1)

\* dsa_switch_suspend and dsa_switch_resume make no register access of
\* their own and return 0.
qca8k_suspend(c, E) == [c |-> qca8k_set_pm(c, E, FALSE, 0), ret |-> 0]

qca8k_resume(c, E) == [c |-> qca8k_set_pm(c, E, TRUE, 0), ret |-> 0]

RECURSIVE qca8k_sw_remove(_, _, _)
qca8k_sw_remove(c, E, i) ==
    IF i >= QCA8K_NUM_PORTS THEN c
    ELSE Bind(qca8k_port_set_status(c, E, i, FALSE), LAMBDA c1 :
             qca8k_sw_remove(c1, E, i + 1))

(***************************************************************************)
(* qca8k-common.c: the FDB (ATU) engine.  A struct qca8k_fdb is a record   *)
(* [vid, port_mask, aging, mac], mac a sequence of six bytes.              *)
(***************************************************************************)
QCA8K_ATU_ADDR2_S == 24
QCA8K_ATU_ADDR3_S == 16
QCA8K_ATU_ADDR4_S == 8
QCA8K_ATU_PORT_M == 127
QCA8K_ATU_PORT_S == 16
QCA8K_ATU_ADDR0_S == 8
QCA8K_ATU_VID_M == 4095
QCA8K_ATU_VID_S == 8
QCA8K_ATU_STATUS_M == 15
QCA8K_ATU_STATUS_STATIC == 15
QCA8K_ATU_FUNC_BUSY == Bit32(31)
QCA8K_ATU_FUNC_PORT_EN == Bit32(14)
QCA8K_ATU_FUNC_FULL == Bit32(12)
QCA8K_ATU_FUNC_PORT_M == 15
QCA8K_ATU_FUNC_PORT_S == 8
QCA8K_PORT_VID_DEF == 1

\* The byte (x >> n) & 0xff.
Byte(x, n) == And32(Shr32(x, n), W(255))[1]

\* qca8k_fdb_read, from reg[i] on: reg holds the registers read so far.
RECURSIVE FdbReadFrom(_, _, _, _, _)
FdbReadFrom(c, E, fdb, reg, i) ==
    IF i < 4
    THEN Bind(qca8k_read(c, E, QCA8K_REG_ATU_DATA0 + (i * 4), E.garbage), LAMBDA r :
             IF r.ret < 0 THEN [c |-> r.c, ret |-> r.ret, fdb |-> fdb]
             ELSE FdbReadFrom(r.c, E, fdb, Append(reg, r.val), i + 1))
    ELSE [c |-> c, ret |-> 0,
          fdb |-> [vid |-> And32(Shr32(reg[3], QCA8K_ATU_VID_S), W(QCA8K_ATU_VID_M))[1],
                   aging |-> And32(reg[3], W(QCA8K_ATU_STATUS_M))[1],
                   port_mask |-> And32(Shr32(reg[2], QCA8K_ATU_PORT_S),
                                       W(QCA8K_ATU_PORT_M))[1],
                   mac |-> <<Byte(reg[2], QCA8K_ATU_ADDR0_S), Byte(reg[2], 0),
                             Byte(reg[1], QCA8K_ATU_ADDR2_S),
                             Byte(reg[1], QCA8K_ATU_ADDR3_S),
                             Byte(reg[1], QCA8K_ATU_ADDR4_S), Byte(reg[1], 0)>>]]

qca8k_fdb_read(c, E, fdb) == FdbReadFrom(c, E, fdb, << >>, 0)

\* port_mask and aging are u8 parameters; the three writes' results are ignored.
qca8k_fdb_write(c, E, vid, port_mask, mac, aging) ==
    Bind(qca8k_write(c, E, QCA8K_REG_ATU_DATA0,
             Or32(Or32(Shl32(W(mac[3]), QCA8K_ATU_ADDR2_S),
                       Shl32(W(mac[4]), QCA8K_ATU_ADDR3_S)),
                  Or32(Shl32(W(mac[5]), QCA8K_ATU_ADDR4_S), W(mac[6])))), LAMBDA a :
    Bind(qca8k_write(a.c, E, QCA8K_REG_ATU_DATA1,
             Or32(Shl32(And32(W(port_mask % 256), W(QCA8K_ATU_PORT_M)),
                        QCA8K_ATU_PORT_S),
                  Or32(Shl32(W(mac[1]), QCA8K_ATU_ADDR0_S), W(mac[2])))), LAMBDA b :
        qca8k_write(b.c, E, QCA8K_REG_ATU_DATA2,
            Or32(Shl32(And32(W(vid), W(QCA8K_ATU_VID_M)), QCA8K_ATU_VID_S),
                 And32(W(aging % 256), W(QCA8K_ATU_STATUS_M)))).c))

\* The function register word of a command; port < 0 names no port.
FdbFunc(cmd, port) ==
    IF port >= 0
    THEN Or32(Or32(QCA8K_ATU_FUNC_BUSY, W(cmd)),
              Or32(QCA8K_ATU_FUNC_PORT_EN,
                   Shl32(And32(W(port), W(QCA8K_ATU_FUNC_PORT_M)),
                         QCA8K_ATU_FUNC_PORT_S)))
    ELSE Or32(QCA8K_ATU_FUNC_BUSY, W(cmd))

\* An access that takes a full table for success.
fdb_access_ignores_full(c, E, cmd, port) ==
    Bind(qca8k_write(c, E, QCA8K_REG_ATU_FUNC, FdbFunc(cmd, port)), LAMBDA w :
        IF w.ret # 0 THEN [c |-> w.c, ret |-> w.ret]
        ELSE Bind(qca8k_busy_wait(w.c, E, QCA8K_REG_ATU_FUNC, QCA8K_ATU_FUNC_BUSY),
                  LAMBDA b :
            IF b.ret # 0 THEN [c |-> b.c, ret |-> b.ret]
            ELSE IF cmd = QCA8K_FDB_LOAD
                 THEN Bind(qca8k_read(b.c, E, QCA8K_REG_ATU_FUNC, E.garbage), LAMBDA r :
                          [c |-> r.c, ret |-> IF r.ret < 0 THEN r.ret ELSE 0])
                 ELSE [c |-> b.c, ret |-> 0]))

qca8k_fdb_access(c, E, cmd, port) ==
    Bind(qca8k_write(c, E, QCA8K_REG_ATU_FUNC, FdbFunc(cmd, port)), LAMBDA w :
        IF w.ret # 0 THEN [c |-> w.c, ret |-> w.ret]
        ELSE Bind(qca8k_busy_wait(w.c, E, QCA8K_REG_ATU_FUNC, QCA8K_ATU_FUNC_BUSY),
                  LAMBDA b :
            IF b.ret # 0 THEN [c |-> b.c, ret |-> b.ret]
            ELSE IF cmd = QCA8K_FDB_LOAD
                 THEN Bind(qca8k_read(b.c, E, QCA8K_REG_ATU_FUNC, E.garbage), LAMBDA r :
                          [c |-> r.c,
                           ret |-> IF r.ret < 0 THEN r.ret
                                   ELSE IF And32(r.val, QCA8K_ATU_FUNC_FULL) # Zero32
                                        THEN -1 ELSE 0])
                 ELSE [c |-> b.c, ret |-> 0]))

qca8k_fdb_next(c, E, fdb, port) ==
    Bind(qca8k_fdb_write(c, E, fdb.vid, fdb.port_mask, fdb.mac, fdb.aging), LAMBDA w :
    Bind(qca8k_fdb_access(w, E, QCA8K_FDB_NEXT, port), LAMBDA a :
        IF a.ret < 0 THEN [c |-> a.c, ret |-> a.ret, fdb |-> fdb]
        ELSE qca8k_fdb_read(a.c, E, fdb)))

mutex_lock(c) == [c EXCEPT !.mutex = TRUE, !.ev = Append(@, [kind |-> "lock"])]

\* A mutex_unlock that leaves the mutex taken.
mutex_unlock_kept(c) == [c EXCEPT !.ev = Append(@, [kind |-> "unlock"])]

mutex_unlock(c) == [c EXCEPT !.mutex = FALSE, !.ev = Append(@, [kind |-> "unlock"])]

\* The end of a locked call: mutex_unlock(&priv->reg_mutex); return ret;
Unlocked(r) == [c |-> mutex_unlock(r.c), ret |-> r.ret]

qca8k_fdb_add(c, E, mac, port_mask, vid, aging) ==
    Bind(qca8k_fdb_write(mutex_lock(c), E, vid, port_mask, mac, aging), LAMBDA w :
        Bind(qca8k_fdb_access(w, E, QCA8K_FDB_LOAD, -1), Unlocked))

qca8k_fdb_del(c, E, mac, port_mask, vid) ==
    Bind(qca8k_fdb_write(mutex_lock(c), E, vid, port_mask, mac, 0), LAMBDA w :
        Bind(qca8k_fdb_access(w, E, QCA8K_FDB_PURGE, -1), Unlocked))

qca8k_port_fdb_insert(c, E, addr, port_mask, vid) ==
    qca8k_fdb_add(c, E, addr, port_mask,
                  IF vid = 0 THEN QCA8K_PORT_VID_DEF ELSE vid,
                  QCA8K_ATU_STATUS_STATIC)

qca8k_port_fdb_add(c, E, port, addr, vid) ==
    qca8k_port_fdb_insert(c, E, addr, 2^port, vid)

qca8k_port_fdb_del(c, E, port, addr, vid) ==
    qca8k_fdb_del(c, E, addr, 2^port, IF vid = 0 THEN QCA8K_PORT_VID_DEF ELSE vid)

\* What the dump leaves in the trace: the result of a qca8k_fdb_next, and a
\* call of the visitor cb with what it returned.
EvNext(c, ret, fdb) == [c EXCEPT !.ev = Append(@, [kind |-> "next", ret |-> ret, fdb |-> fdb])]

EvCb(c, fdb, ret) ==
    [c EXCEPT !.ev = Append(@, [kind |-> "cb", mac |-> fdb.mac, vid |-> fdb.vid,
                               is_static |-> (fdb.aging = QCA8K_ATU_STATUS_STATIC),
                               ret |-> ret])]

\* A walk that goes on after the visitor returned non-zero.
RECURSIVE dump_loop_no_stop(_, _, _, _, _, _, _)
dump_loop_no_stop(c, E, port, fdb, cnt, stop, ncb) ==
    IF cnt = 0 THEN c
    ELSE Bind(qca8k_fdb_next(c, E, fdb, port), LAMBDA n :
         Bind(EvNext(n.c, n.ret, n.fdb), LAMBDA c1 :
             IF n.ret # 0 \/ n.fdb.aging = 0 THEN c1
             ELSE Bind(EvCb(c1, n.fdb, IF ncb + 1 = stop THEN 1 ELSE 0), LAMBDA c2 :
                      dump_loop_no_stop(c2, E, port, n.fdb, cnt - 1, stop, ncb + 1))))

\* The loop of qca8k_port_fdb_dump with cnt iterations left; the visitor has
\* been called ncb times and returns non-zero at its stop-th call (never, if
\* stop is 0).
RECURSIVE FdbDumpLoop(_, _, _, _, _, _, _)
FdbDumpLoop(c, E, port, fdb, cnt, stop, ncb) ==
    IF cnt = 0 THEN c
    ELSE Bind(qca8k_fdb_next(c, E, fdb, port), LAMBDA n :
         Bind(EvNext(n.c, n.ret, n.fdb), LAMBDA c1 :
             IF n.ret # 0 \/ n.fdb.aging = 0 THEN c1
             ELSE IF ncb + 1 = stop THEN EvCb(c1, n.fdb, 1)
             ELSE Bind(EvCb(c1, n.fdb, 0), LAMBDA c2 :
                      FdbDumpLoop(c2, E, port, n.fdb, cnt - 1, stop, ncb + 1))))

\* A dump whose walk is one command short: while (--cnt && ...).
dump_short_walk(c, E, port, stop) ==
    Bind(dump_loop_no_stop(mutex_lock(c), E, port, ZeroFdb, QCA8K_NUM_FDB_RECORDS - 1,
                           0, 0),
         LAMBDA d : [c |-> mutex_unlock(d), ret |-> 0])

qca8k_port_fdb_dump(c, E, port, stop) ==
    Bind(FdbDumpLoop(mutex_lock(c), E, port, ZeroFdb, QCA8K_NUM_FDB_RECORDS, stop, 0),
         LAMBDA d : [c |-> mutex_unlock(d), ret |-> 0])

(***************************************************************************)
(* qca8k-common.c: the MIB counters.                                       *)
(***************************************************************************)
\* ar8327_mib: MIB_DESC(size, offset, name) as <<size, offset>>.
ar8327_mib ==
    <<<<1, 0>>, <<1, 4>>, <<1, 8>>, <<1, 12>>, <<1, 16>>, <<1, 20>>,
      <<1, 24>>, <<1, 28>>, <<1, 32>>, <<1, 36>>, <<1, 40>>, <<1, 44>>,
      <<1, 48>>, <<1, 52>>, <<1, 56>>, <<2, 60>>, <<2, 68>>, <<1, 76>>,
      <<1, 80>>, <<1, 84>>, <<1, 88>>, <<1, 92>>, <<1, 96>>, <<1, 100>>,
      <<1, 104>>, <<1, 108>>, <<1, 112>>, <<1, 116>>, <<1, 120>>, <<1, 124>>,
      <<1, 128>>, <<2, 132>>, <<1, 140>>, <<1, 144>>, <<1, 148>>, <<1, 152>>,
      <<1, 156>>, <<1, 160>>, <<1, 164>>>>

QCA8K_PORT_MIB_COUNTER(port) == 4096 + port * 256

\* The register of counter i of a port (i from 0), and of its upper half.
MibReg(port, i) == QCA8K_PORT_MIB_COUNTER(port) + ar8327_mib[i + 1][2]

\* The body of the loop of qca8k_get_ethtool_stats for counter i; s holds c,
\* data, hi and rets.  A uint64_t of data is <<low 32 bits, high 32 bits>>
\* and data[i] of the code is data[i + 1] here; rets keeps what the reads of
\* each counter returned.
StatsBody(s, E, port, i) ==
    Bind(qca8k_read(s.c, E, MibReg(port, i), E.garbage), LAMBDA a :
        IF a.ret < 0
        THEN [s EXCEPT !.c = a.c, !.rets = Append(@, <<a.ret>>)]
        ELSE IF ar8327_mib[i + 1][1] = 2
        THEN Bind(qca8k_read(a.c, E, MibReg(port, i) + 4, s.hi), LAMBDA b :
                 IF b.ret < 0
                 THEN [s EXCEPT !.c = b.c, !.hi = b.val,
                                !.rets = Append(@, <<a.ret, b.ret>>)]
                 ELSE [s EXCEPT !.c = b.c, !.hi = b.val,
                                !.data[i + 1] = <<a.val, b.val>>,
                                !.rets = Append(@, <<a.ret, b.ret>>)])
        ELSE [s EXCEPT !.c = a.c, !.data[i + 1] = <<a.val, Zero32>>,
                       !.rets = Append(@, <<a.ret>>)])

\* The n iterations of the loop from counter i on, n > 0, as the first half
\* of them followed, while counters are left (one entry of rets is made per
\* counter), by the rest.
RECURSIVE StatsLoop(_, _, _, _, _)
StatsLoop(s, E, port, i, n) ==
    IF n = 1 THEN StatsBody(s, E, port, i)
    ELSE Bind(StatsLoop(s, E, port, i, n \div 2), LAMBDA s1 :
             IF Len(s1.rets) >= Len(ar8327_mib) THEN s1
             ELSE StatsLoop(s1, E, port, i + n \div 2, n - n \div 2))

\* A read of the counters before has failed.
StatsFailed(s) ==
    \E k \in 1..Len(s.rets) : \E j \in 1..Len(s.rets[k]) : s.rets[k][j] < 0

\* A collection that gives up at the first counter it cannot read.
RECURSIVE stats_stop_at_failure(_, _, _, _, _)
stats_stop_at_failure(s, E, port, i, n) ==
    IF n = 1 THEN StatsBody(s, E, port, i)
    ELSE Bind(stats_stop_at_failure(s, E, port, i, n \div 2), LAMBDA s1 :
             IF StatsFailed(s1) \/ Len(s1.rets) >= Len(ar8327_mib) THEN s1
             ELSE stats_stop_at_failure(s1, E, port, i + n \div 2, n - n \div 2))

get_ethtool_stats_stop_at_failure(c, E, port, data) ==
    Bind(stats_stop_at_failure([c |-> c, data |-> data, hi |-> Zero32, rets |-> << >>],
                               E, port, 0, Len(ar8327_mib)), LAMBDA s :
        [c |-> s.c, data |-> s.data, rets |-> s.rets])

qca8k_get_ethtool_stats(c, E, port, data) ==
    Bind(StatsLoop([c |-> c, data |-> data, hi |-> Zero32, rets |-> << >>],
                   E, port, 0, Len(ar8327_mib)), LAMBDA s :
        [c |-> s.c, data |-> s.data, rets |-> s.rets])

(***************************************************************************)
(* qca8k-common.c: the VLAN (VTU) engine.                                  *)
(***************************************************************************)
ENOMEM == -12

QCA8K_VTU_FUNC0_VALID == Bit32(20)
QCA8K_VTU_FUNC0_IVL_EN == Bit32(19)
QCA8K_VTU_FUNC0_EG_MODE_S(i) == 4 + i * 2
QCA8K_VTU_FUNC0_EG_MODE_MASK == 3
QCA8K_VTU_FUNC0_EG_MODE_UNTAG == 1
QCA8K_VTU_FUNC0_EG_MODE_TAG == 2
QCA8K_VTU_FUNC0_EG_MODE_NOT == 3
QCA8K_VTU_FUNC1_BUSY == Bit32(31)
QCA8K_VTU_FUNC1_VID_S == 16
QCA8K_VTU_FUNC1_FULL == Bit32(4)

\* The function register word of a command.
VtuFunc(cmd, vid) ==
    Or32(Or32(QCA8K_VTU_FUNC1_BUSY, W(cmd)), Shl32(W(vid), QCA8K_VTU_FUNC1_VID_S))

qca8k_vlan_access(c, E, cmd, vid) ==
    Bind(qca8k_write(c, E, QCA8K_REG_VTU_FUNC1, VtuFunc(cmd, vid)), LAMBDA w :
        IF w.ret # 0 THEN [c |-> w.c, ret |-> w.ret]
        ELSE Bind(qca8k_busy_wait(w.c, E, QCA8K_REG_VTU_FUNC1, QCA8K_VTU_FUNC1_BUSY),
                  LAMBDA b :
            IF b.ret # 0 THEN [c |-> b.c, ret |-> b.ret]
            ELSE IF cmd = QCA8K_VLAN_LOAD
                 THEN Bind(qca8k_read(b.c, E, QCA8K_REG_VTU_FUNC1, VtuFunc(cmd, vid)),
                           LAMBDA r :
                          [c |-> r.c,
                           ret |-> IF r.ret < 0 THEN r.ret
                                   ELSE IF And32(r.val, QCA8K_VTU_FUNC1_FULL) # Zero32
                                        THEN ENOMEM ELSE 0])
                 ELSE [c |-> b.c, ret |-> 0]))

\* reg with the egress mode of port replaced by mode.
VtuSetMode(reg, port, mode) ==
    Or32(And32(reg, Not32(Shl32(W(QCA8K_VTU_FUNC0_EG_MODE_MASK),
                                QCA8K_VTU_FUNC0_EG_MODE_S(port)))),
         Shl32(W(mode), QCA8K_VTU_FUNC0_EG_MODE_S(port)))

\* A vlan_add that loads an entry holding its port alone, not what READ gave.
vlan_add_overwrite(c, E, port, vid, untagged) ==
    IF vid = 0 THEN [c |-> c, ret |-> 0]
    ELSE Bind(qca8k_vlan_access(mutex_lock(c), E, QCA8K_VLAN_READ, vid), LAMBDA a :
        IF a.ret < 0 THEN Unlocked(a)
        ELSE Bind(qca8k_write(a.c, E, QCA8K_REG_VTU_FUNC0,
                      VtuSetMode(Or32(QCA8K_VTU_FUNC0_VALID, QCA8K_VTU_FUNC0_IVL_EN),
                                 port,
                                 IF untagged THEN QCA8K_VTU_FUNC0_EG_MODE_UNTAG
                                 ELSE QCA8K_VTU_FUNC0_EG_MODE_TAG)), LAMBDA w :
            IF w.ret # 0 THEN Unlocked(w)
            ELSE Bind(qca8k_vlan_access(w.c, E, QCA8K_VLAN_LOAD, vid), Unlocked)))

qca8k_vlan_add(c, E, port, vid, untagged) ==
    IF vid = 0 THEN [c |-> c, ret |-> 0]
    ELSE Bind(qca8k_vlan_access(mutex_lock(c), E, QCA8K_VLAN_READ, vid), LAMBDA a :
        IF a.ret < 0 THEN Unlocked(a)
        ELSE Bind(qca8k_read(a.c, E, QCA8K_REG_VTU_FUNC0, E.garbage), LAMBDA r :
            IF r.ret < 0 THEN Unlocked(r)
            ELSE Bind(qca8k_write(r.c, E, QCA8K_REG_VTU_FUNC0,
                          VtuSetMode(Or32(r.val, Or32(QCA8K_VTU_FUNC0_VALID,
                                                      QCA8K_VTU_FUNC0_IVL_EN)),
                                     port,
                                     IF untagged THEN QCA8K_VTU_FUNC0_EG_MODE_UNTAG
                                     ELSE QCA8K_VTU_FUNC0_EG_MODE_TAG)), LAMBDA w :
                IF w.ret # 0 THEN Unlocked(w)
                ELSE Bind(qca8k_vlan_access(w.c, E, QCA8K_VLAN_LOAD, vid), Unlocked))))

\* The loop of qca8k_vlan_del: every port of reg has the mode "not a member".
VtuLastMember(reg) ==
    \A i \in 0..(QCA8K_NUM_PORTS - 1) :
        Bind(Shl32(W(QCA8K_VTU_FUNC0_EG_MODE_NOT), QCA8K_VTU_FUNC0_EG_MODE_S(i)),
             LAMBDA mask : And32(reg, mask) = mask)

qca8k_vlan_del(c, E, port, vid) ==
    Bind(qca8k_vlan_access(mutex_lock(c), E, QCA8K_VLAN_READ, vid), LAMBDA a :
        IF a.ret < 0 THEN Unlocked(a)
        ELSE Bind(qca8k_read(a.c, E, QCA8K_REG_VTU_FUNC0, E.garbage), LAMBDA r :
            IF r.ret < 0 THEN Unlocked(r)
            ELSE Bind(VtuSetMode(r.val, port, QCA8K_VTU_FUNC0_EG_MODE_NOT), LAMBDA reg :
                IF VtuLastMember(reg)
                THEN Bind(qca8k_vlan_access(r.c, E, QCA8K_VLAN_PURGE, vid), Unlocked)
                ELSE Bind(qca8k_write(r.c, E, QCA8K_REG_VTU_FUNC0, reg), LAMBDA w :
                    IF w.ret # 0 THEN Unlocked(w)
                    ELSE Bind(qca8k_vlan_access(w.c, E, QCA8K_VLAN_LOAD, vid),
                              Unlocked)))))

QCA8K_EGRESS_VLAN(x) == 3184 + 4 * (x \div 2)
QCA8K_REG_PORT_VLAN_CTRL0(i) == 1056 + i * 8
QCA8K_PORT_VLAN_CVID(x) == Shl32(W(x), 16)
QCA8K_PORT_VLAN_SVID(x) == W(x)

\* The default vid of a port: its field of the egress VLAN register and the
\* CVID and SVID of its VLAN control register 0.
PortSetPvid(c, E, port, vid) ==
    Bind(16 * (port % 2), LAMBDA shift :
    Bind(qca8k_rmw(c, E, QCA8K_EGRESS_VLAN(port), Shl32(W(4095), shift),
                   Shl32(W(vid), shift)), LAMBDA a :
        IF a.ret # 0 THEN a
        ELSE qca8k_write(a.c, E, QCA8K_REG_PORT_VLAN_CTRL0(port),
                         Or32(QCA8K_PORT_VLAN_CVID(vid), QCA8K_PORT_VLAN_SVID(vid)))))

\* untagged and pvid are the bits BRIDGE_VLAN_INFO_UNTAGGED and
\* BRIDGE_VLAN_INFO_PVID of vlan->flags.
qca8k_port_vlan_add(c, E, port, vid, untagged, pvid) ==
    Bind(qca8k_vlan_add(c, E, port, vid, untagged), LAMBDA a :
        IF a.ret # 0 THEN a
        ELSE IF pvid THEN PortSetPvid(a.c, E, port, vid)
        ELSE a)

qca8k_port_vlan_del(c, E, port, vid) == qca8k_vlan_del(c, E, port, vid)

(***************************************************************************)
(* qca8k-common.c: STP state, bridge membership and MTU of the ports.      *)
(***************************************************************************)
BR_STATE_DISABLED == 0
BR_STATE_LISTENING == 1
BR_STATE_LEARNING == 2
BR_STATE_FORWARDING == 3
BR_STATE_BLOCKING == 4

QCA8K_CPU_PORT == 0
QCA8K_PORT_LOOKUP_CTRL(i) == 1632 + i * 12
QCA8K_PORT_LOOKUP_MEMBER == W(127)
QCA8K_PORT_LOOKUP_VLAN_MODE == Shl32(W(3), 8)
QCA8K_PORT_LOOKUP_STATE_MASK == Shl32(W(7), 16)
QCA8K_PORT_LOOKUP_STATE_DISABLED == Shl32(W(0), 16)
QCA8K_PORT_LOOKUP_STATE_BLOCKING == Shl32(W(1), 16)
QCA8K_PORT_LOOKUP_STATE_LISTENING == Shl32(W(2), 16)
QCA8K_PORT_LOOKUP_STATE_LEARNING == Shl32(W(3), 16)
QCA8K_PORT_LOOKUP_STATE_FORWARD == Shl32(W(4), 16)
QCA8K_PORT_LOOKUP_LEARN == Bit32(20)

\* The switch of qca8k_port_stp_state_set.
StpState(state) ==
    IF state = BR_STATE_DISABLED THEN QCA8K_PORT_LOOKUP_STATE_DISABLED
    ELSE IF state = BR_STATE_BLOCKING THEN QCA8K_PORT_LOOKUP_STATE_BLOCKING
    ELSE IF state = BR_STATE_LISTENING THEN QCA8K_PORT_LOOKUP_STATE_LISTENING
    ELSE IF state = BR_STATE_LEARNING THEN QCA8K_PORT_LOOKUP_STATE_LEARNING
    ELSE QCA8K_PORT_LOOKUP_STATE_FORWARD

\* A state change that writes the whole register.
stp_state_set_whole(c, E, port, state) ==
    qca8k_write(c, E, QCA8K_PORT_LOOKUP_CTRL(port), StpState(state)).c

qca8k_port_stp_state_set(c, E, port, state) ==
    qca8k_rmw(c, E, QCA8K_PORT_LOOKUP_CTRL(port), QCA8K_PORT_LOOKUP_STATE_MASK,
              StpState(state)).c

\* The loop of qca8k_port_bridge_join from port i on; port_mask is an int.
RECURSIVE BridgeJoinLoop(_, _, _, _, _, _)
BridgeJoinLoop(c, E, port, br, i, port_mask) ==
    IF i >= QCA8K_NUM_PORTS THEN [c |-> c, ret |-> 0, port_mask |-> port_mask]
    ELSE IF c.bridge_dev[i] # br
    THEN BridgeJoinLoop(c, E, port, br, i + 1, port_mask)
    ELSE Bind(qca8k_reg_set(c, E, QCA8K_PORT_LOOKUP_CTRL(i), Bit32(port)), LAMBDA r :
             IF r.ret # 0 THEN [c |-> r.c, ret |-> r.ret, port_mask |-> port_mask]
             ELSE BridgeJoinLoop(r.c, E, port, br, i + 1,
                                 IF i # port THEN BitOr(port_mask, 2^i) ELSE port_mask))

qca8k_port_bridge_join(c, E, port, br) ==
    Bind(BridgeJoinLoop(c, E, port, br, 1, 2^QCA8K_CPU_PORT), LAMBDA l :
        IF l.ret # 0 THEN [c |-> l.c, ret |-> l.ret]
        ELSE qca8k_rmw(l.c, E, QCA8K_PORT_LOOKUP_CTRL(port), QCA8K_PORT_LOOKUP_MEMBER,
                       W(l.port_mask)))

\* The loop of qca8k_port_bridge_leave from port i on.
RECURSIVE BridgeLeaveLoop(_, _, _, _, _)
BridgeLeaveLoop(c, E, port, br, i) ==
    IF i >= QCA8K_NUM_PORTS THEN Void(c)
    ELSE IF c.bridge_dev[i] # br THEN BridgeLeaveLoop(c, E, port, br, i + 1)
    ELSE Then(Ignore(qca8k_reg_clear(c, E, QCA8K_PORT_LOOKUP_CTRL(i), Bit32(port))),
              LAMBDA c1 : BridgeLeaveLoop(c1, E, port, br, i + 1))

qca8k_port_bridge_leave(c, E, port, br) ==
    Then(BridgeLeaveLoop(c, E, port, br, 1), LAMBDA c1 :
        Ignore(qca8k_rmw(c1, E, QCA8K_PORT_LOOKUP_CTRL(port), QCA8K_PORT_LOOKUP_MEMBER,
                         Bit32(QCA8K_CPU_PORT)))).c

\* The switch framework around the two bridge calls: it records the bridge of
\* the port before the join, takes it back if the join fails, and clears it
\* before the leave.
dsa_port_bridge_join(c, E, port, br) ==
    Bind(qca8k_port_bridge_join([c EXCEPT !.bridge_dev[port] = br], E, port, br),
         LAMBDA r :
        IF r.ret # 0 THEN [c |-> [r.c EXCEPT !.bridge_dev[port] = 0], ret |-> r.ret]
        ELSE r)

dsa_port_bridge_leave(c, E, port) ==
    qca8k_port_bridge_leave([c EXCEPT !.bridge_dev[port] = 0], E, port,
                            c.bridge_dev[port])

QCA8K_MAX_FRAME_SIZE == 120
ETH_HLEN == 14
ETH_FCS_LEN == 4
ETH_FRAME_LEN == 1514

\* The largest of the stored MTUs, 0 at least.
RECURSIVE MaxMtu(_, _, _)
MaxMtu(port_mtu, i, mtu) ==
    IF i >= QCA8K_NUM_PORTS THEN mtu
    ELSE MaxMtu(port_mtu, i + 1, IF port_mtu[i] > mtu THEN port_mtu[i] ELSE mtu)

qca8k_port_change_mtu(c, E, port, new_mtu) ==
    Bind([c EXCEPT !.port_mtu[port] = new_mtu], LAMBDA c1 :
        qca8k_write(c1, E, QCA8K_MAX_FRAME_SIZE,
                    W(MaxMtu(c1.port_mtu, 0, 0) + ETH_HLEN + ETH_FCS_LEN)))

(***************************************************************************)
(* qca8k.c: qca8k_setup.  What the call takes from the switch framework    *)
(* and the device tree is a record dt: cpu, the CPU port; user, the set of *)
(* user ports; ext, the user ports with a phy-handle to an external PHY.   *)
(* The handle's switch_id is QCA8K_ID_QCA8337, the one the probe accepts.  *)
(***************************************************************************)
QCA8K_REG_GLOBAL_FW_CTRL0 == 1568
QCA8K_GLOBAL_FW_CTRL0_CPU_PORT_EN == Bit32(10)
QCA8K_REG_GLOBAL_FW_CTRL1 == 1572
QCA8K_GLOBAL_FW_CTRL1_IGMP_DP_S == 24
QCA8K_GLOBAL_FW_CTRL1_BC_DP_S == 16
QCA8K_GLOBAL_FW_CTRL1_MC_DP_S == 8
QCA8K_GLOBAL_FW_CTRL1_UC_DP_S == 0
QCA8K_REG_PORT_HDR_CTRL(i) == 156 + i * 4
QCA8K_PORT_HDR_CTRL_ALL == 2
QCA8K_PORT_HDR_CTRL_RX_S == 2
QCA8K_PORT_HDR_CTRL_TX_S == 0
QCA8K_MIB_FLUSH == Bit32(24)
QCA8K_MIB_CPU_KEEP == Bit32(20)
QCA8K_MIB_BUSY == Bit32(17)
QCA8K_MODULE_EN_MIB == Bit32(0)
QCA8K_REG_PORT_HOL_CTRL0(i) == 2416 + i * 8
QCA8K_REG_PORT_HOL_CTRL1(i) == 2420 + i * 8
QCA8K_PORT_HOL_CTRL1_ING_BUF == W(15)
QCA8K_PORT_HOL_CTRL1_EG_PRI_BUF_EN == Bit32(6)
QCA8K_PORT_HOL_CTRL1_EG_PORT_BUF_EN == Bit32(7)
QCA8K_PORT_HOL_CTRL1_WRED_EN == Bit32(8)

\* BIT(i) of every port of the set, as an int: dsa_user_ports(ds).
RECURSIVE PortMask(_, _)
PortMask(S, i) ==
    IF i >= QCA8K_NUM_PORTS THEN 0
    ELSE (IF i \in S THEN 2^i ELSE 0) + PortMask(S, i + 1)

qca8k_fdb_flush(c, E) ==
    Bind(qca8k_fdb_access(mutex_lock(c), E, QCA8K_FDB_FLUSH, -1), Unlocked)

qca8k_mib_init(c, E) ==
    Bind(Then(qca8k_reg_set(mutex_lock(c), E, QCA8K_REG_MIB,
                            Or32(QCA8K_MIB_FLUSH, QCA8K_MIB_BUSY)), LAMBDA c1 :
         Then(qca8k_busy_wait(c1, E, QCA8K_REG_MIB, QCA8K_MIB_BUSY), LAMBDA c2 :
         Then(qca8k_reg_set(c2, E, QCA8K_REG_MIB, QCA8K_MIB_CPU_KEEP), LAMBDA c3 :
              qca8k_write(c3, E, QCA8K_REG_MODULE_EN, QCA8K_MODULE_EN_MIB)))),
         Unlocked)

\* qca8k_setup_mdio_bus without the test for mixed PHY styles, and with the
\* legacy mapping installed for every device tree.
qca8k_setup_mdio_bus_any_style(c, E, dt) ==
    IF dt.user = {} THEN [c |-> c, ret |-> EINVAL]
    ELSE IF dt.user \cap dt.ext # {}
    THEN qca8k_reg_clear([c EXCEPT !.legacy_phy_port_mapping = TRUE], E,
                         QCA8K_MDIO_MASTER_CTRL, QCA8K_MDIO_MASTER_EN)
    ELSE [c |-> [c EXCEPT !.legacy_phy_port_mapping = TRUE], ret |-> 0]

\* The masks of the user ports with an external and with an internal PHY
\* decide: none or both kinds is an error, external PHYs disable the MDIO
\* master, internal ones get the MDIO bus of the mdio node (dt.mdio) or the
\* legacy mapping, neither of which touches a register.  The legacy mapping
\* is the one place that installs priv->ops.phy_read and phy_write, in the
\* statements that set legacy_phy_port_mapping.
qca8k_setup_mdio_bus(c, E, dt) ==
    Bind(PortMask(dt.user \cap dt.ext, 0), LAMBDA external_mdio_mask :
    Bind(PortMask(dt.user \ dt.ext, 0), LAMBDA internal_mdio_mask :
        IF external_mdio_mask = 0 /\ internal_mdio_mask = 0 THEN [c |-> c, ret |-> EINVAL]
        ELSE IF external_mdio_mask # 0 /\ internal_mdio_mask # 0
        THEN [c |-> c, ret |-> EINVAL]
        ELSE IF external_mdio_mask # 0
        THEN qca8k_reg_clear(c, E, QCA8K_MDIO_MASTER_CTRL, QCA8K_MDIO_MASTER_EN)
        ELSE IF dt.mdio THEN [c |-> c, ret |-> 0]
        ELSE [c |-> [c EXCEPT !.legacy_phy_port_mapping = TRUE], ret |-> 0]))

\* "Disable forwarding by default on all ports", from port i on.
RECURSIVE SetupLookupOff(_, _, _)
SetupLookupOff(c, E, i) ==
    IF i >= QCA8K_NUM_PORTS THEN [c |-> c, ret |-> 0]
    ELSE Then(qca8k_rmw(c, E, QCA8K_PORT_LOOKUP_CTRL(i), QCA8K_PORT_LOOKUP_MEMBER,
                        Zero32),
              LAMBDA c1 : SetupLookupOff(c1, E, i + 1))

\* "Disable MAC by default on all ports", from port i on.
RECURSIVE SetupMacOff(_, _, _)
SetupMacOff(c, E, i) ==
    IF i >= QCA8K_NUM_PORTS THEN Void(c)
    ELSE Then(Void(qca8k_port_set_status(c, E, i, FALSE)), LAMBDA c1 :
             SetupMacOff(c1, E, i + 1))

\* The first steps of qca8k_setup: the CPU port check and the MDIO bus, the
\* CPU port enable, the MIB counters (a failure is only warned about), the
\* header mode of the CPU port.  The result also tells the number of the
\* last transfer made when each step was left.
SetupToMdio(c, E, dt) ==
    IF dt.cpu # 0 THEN [c |-> c, ret |-> EINVAL]
    ELSE qca8k_setup_mdio_bus([c EXCEPT !.mutex = FALSE], E, dt)

SetupMarks(c, E, dt) ==
    Bind(SetupToMdio(c, E, dt), LAMBDA r1 :
    Bind(Then(r1, LAMBDA c1 :
             qca8k_reg_set(c1, E, QCA8K_REG_GLOBAL_FW_CTRL0,
                           QCA8K_GLOBAL_FW_CTRL0_CPU_PORT_EN)), LAMBDA r2 :
    Bind(Then(r2, LAMBDA c2 : Ignore(qca8k_mib_init(c2, E))), LAMBDA r3 :
    Bind(Then(r3, LAMBDA c3 :
             qca8k_write(c3, E, QCA8K_REG_PORT_HDR_CTRL(QCA8K_CPU_PORT),
                 Or32(Shl32(W(QCA8K_PORT_HDR_CTRL_ALL), QCA8K_PORT_HDR_CTRL_TX_S),
                      Shl32(W(QCA8K_PORT_HDR_CTRL_ALL), QCA8K_PORT_HDR_CTRL_RX_S)))),
         LAMBDA r4 :
        [c |-> r4.c, ret |-> r4.ret,
         mdio |-> r1.c.n, cpu |-> r2.c.n, mib |-> r3.c.n, hdr |-> r4.c.n]))))

\* The part of qca8k_setup before the ports are connected.
SetupHead(c, E, dt) ==
    Then(SetupMarks(c, E, dt), LAMBDA c4 :
    Then(SetupLookupOff(c4, E, 0), LAMBDA c5 :
    Then(SetupMacOff(c5, E, 1), LAMBDA c6 :
        qca8k_write(c6, E, QCA8K_REG_GLOBAL_FW_CTRL1,
            Or32(Or32(Bit32(QCA8K_GLOBAL_FW_CTRL1_IGMP_DP_S),
                      Bit32(QCA8K_GLOBAL_FW_CTRL1_BC_DP_S)),
                 Or32(Bit32(QCA8K_GLOBAL_FW_CTRL1_MC_DP_S),
                      Bit32(QCA8K_GLOBAL_FW_CTRL1_UC_DP_S)))))))

\* The number of the last transfer of each of these steps on a bus without
\* faults.
SetupSteps(c, E, dt) ==
    Bind(SetupMarks(c, [E EXCEPT !.F = {}], dt), LAMBDA r :
        [mdio |-> r.mdio, cpu |-> r.cpu, mib |-> r.mib, hdr |-> r.hdr])

\* One round of "Setup connection between CPU port & user ports".
SetupUserPort(c, E, i) ==
    Then(qca8k_rmw(c, E, QCA8K_PORT_LOOKUP_CTRL(i), QCA8K_PORT_LOOKUP_MEMBER,
                   Bit32(QCA8K_CPU_PORT)), LAMBDA c1 :
    Then(qca8k_reg_set(c1, E, QCA8K_PORT_LOOKUP_CTRL(i), QCA8K_PORT_LOOKUP_LEARN),
         LAMBDA c2 :
    Then(qca8k_rmw(c2, E, QCA8K_EGRESS_VLAN(i), Shl32(W(4095), 16 * (i % 2)),
                   Shl32(W(QCA8K_PORT_VID_DEF), 16 * (i % 2))), LAMBDA c3 :
        qca8k_write(c3, E, QCA8K_REG_PORT_VLAN_CTRL0(i),
                    Or32(QCA8K_PORT_VLAN_CVID(QCA8K_PORT_VID_DEF),
                         QCA8K_PORT_VLAN_SVID(QCA8K_PORT_VID_DEF))))))

RECURSIVE SetupPorts(_, _, _, _)
SetupPorts(c, E, dt, i) ==
    IF i >= QCA8K_NUM_PORTS THEN [c |-> c, ret |-> 0]
    ELSE Then(IF i = dt.cpu
              THEN qca8k_rmw(c, E, QCA8K_PORT_LOOKUP_CTRL(QCA8K_CPU_PORT),
                             QCA8K_PORT_LOOKUP_MEMBER, W(PortMask(dt.user, 0)))
              ELSE [c |-> c, ret |-> 0], LAMBDA c1 :
         Then(IF i \in dt.user THEN SetupUserPort(c1, E, i) ELSE [c |-> c1, ret |-> 0],
              LAMBDA c2 : SetupPorts(c2, E, dt, i + 1)))

\* QCA8K_PORT_HOL_CTRL0_EG_PRI0..5(x) and _EG_PORT(x): x at bit 0, 4, 8, 12,
\* 16, 20 and 24.
HolCtrl0(pri0, pri1, pri2, pri3, pri4, pri5, eg_port) ==
    Or32(Or32(Or32(W(pri0), Shl32(W(pri1), 4)), Or32(Shl32(W(pri2), 8), Shl32(W(pri3), 12))),
         Or32(Or32(Shl32(W(pri4), 16), Shl32(W(pri5), 20)), Shl32(W(eg_port), 24)))

\* The buffer and priority settings of the qca8337, from port i on.
RECURSIVE SetupHol(_, _, _)
SetupHol(c, E, i) ==
    IF i >= QCA8K_NUM_PORTS THEN Void(c)
    ELSE Then(Ignore(qca8k_write(c, E, QCA8K_REG_PORT_HOL_CTRL0(i),
                                 IF i \in {0, 5, 6} THEN HolCtrl0(3, 4, 4, 4, 6, 8, 30)
                                 ELSE HolCtrl0(3, 4, 6, 8, 0, 0, 25))), LAMBDA c1 :
         Bind(Or32(Or32(QCA8K_PORT_HOL_CTRL1_EG_PRI_BUF_EN,
                        QCA8K_PORT_HOL_CTRL1_EG_PORT_BUF_EN),
                   QCA8K_PORT_HOL_CTRL1_WRED_EN), LAMBDA en :
         Then(Ignore(qca8k_rmw(c1, E, QCA8K_REG_PORT_HOL_CTRL1(i),
                               Or32(QCA8K_PORT_HOL_CTRL1_ING_BUF, en), Or32(W(6), en))),
              LAMBDA c2 : SetupHol(c2, E, i + 1))))

\* The part of qca8k_setup from the connection of the ports on.
SetupTail(c, E, dt) ==
    Then(SetupPorts(c, E, dt, 0), LAMBDA c1 :
    Then(SetupHol(c1, E, 0), LAMBDA c2 :
    Then(Void([c2 EXCEPT !.port_mtu = [i \in 0..(QCA8K_NUM_PORTS - 1) |->
                                          ETH_FRAME_LEN + ETH_FCS_LEN]]), LAMBDA c3 :
    Then(Ignore(qca8k_write(c3, E, QCA8K_MAX_FRAME_SIZE,
                            W(ETH_FRAME_LEN + ETH_FCS_LEN))),
         LAMBDA c4 : Ignore(qca8k_fdb_flush(c4, E))))))

qca8k_setup(c, E, dt) == Then(SetupHead(c, E, dt), LAMBDA c1 : SetupTail(c1, E, dt))

(***************************************************************************)
(* qca8k.c and qca8k-ipq4019.c: phylink.  A phy_interface_t is the name of *)
(* its PHY_INTERFACE_MODE_ constant, a link mode mask the set of the names *)
(* of its bits.                                                            *)
(***************************************************************************)
QCA8K_REG_PORT0_PAD_CTRL == 4
QCA8K_REG_PORT5_PAD_CTRL == 8
QCA8K_REG_PORT6_PAD_CTRL == 12
QCA8K_REG_PWS == 16
QCA8K_REG_SGMII_CTRL == 224
QCA8K_PORT_PAD_RGMII_EN == Bit32(26)
QCA8K_PORT_PAD_RGMII_TX_DELAY(x) == Shl32(W(x), 22)
QCA8K_PORT_PAD_RGMII_RX_DELAY(x) == Shl32(W(x), 20)
QCA8K_PORT_PAD_RGMII_TX_DELAY_EN == Bit32(25)
QCA8K_PORT_PAD_RGMII_RX_DELAY_EN == Bit32(24)
QCA8K_PORT_PAD_SGMII_EN == Bit32(7)
QCA8K_PWS_SERDES_AEN_DIS == Bit32(7)
QCA8K_SGMII_EN_PLL == Bit32(1)
QCA8K_SGMII_EN_RX == Bit32(2)
QCA8K_SGMII_EN_TX == Bit32(3)
QCA8K_SGMII_EN_SD == Bit32(4)
QCA8K_SGMII_MODE_CTRL_MASK == Or32(Bit32(22), Bit32(23))
QCA8K_SGMII_MODE_CTRL_BASEX == Zero32
QCA8K_SGMII_MODE_CTRL_PHY == Bit32(22)
QCA8K_SGMII_MODE_CTRL_MAC == Bit32(23)

RgmiiModes == {"RGMII", "RGMII_ID", "RGMII_TXID", "RGMII_RXID"}

\* phylink_set_port_modes
PortModes == {"TP", "AUI", "MII", "FIBRE", "BNC", "Backplane"}

\* qca8k_phylink_validate: the interface modes of a port it does not send to
\* unsupported.
Qca8kSupported(port) ==
    IF port = 0 THEN {"NA", "SGMII"} \cup RgmiiModes
    ELSE IF port \in 1..5 THEN {"NA", "GMII", "INTERNAL"}
    ELSE IF port = 6 THEN {"NA", "SGMII", "1000BASEX"} \cup RgmiiModes
    ELSE {}

\* A validate that lets every interface mode pass.
phylink_validate_any_mode(port, interface, supported, advertising) ==
    Bind(PortModes
         \cup {"Autoneg", "1000baseT_Full", "10baseT_Half", "10baseT_Full",
                "100baseT_Half", "100baseT_Full", "Pause", "Asym_Pause"},
         LAMBDA mask : [supported |-> supported \cap mask,
                        advertising |-> advertising \cap mask])

qca8k_phylink_validate(port, interface, supported, advertising) ==
    IF interface \notin Qca8kSupported(port)
    THEN [supported |-> {}, advertising |-> advertising]
    ELSE Bind(PortModes
              \cup {"Autoneg", "1000baseT_Full", "10baseT_Half", "10baseT_Full",
                     "100baseT_Half", "100baseT_Full", "Pause", "Asym_Pause"}
              \cup (IF interface = "1000BASEX" THEN {"1000baseX_Full"} ELSE {}),
              LAMBDA mask : [supported |-> supported \cap mask,
                             advertising |-> advertising \cap mask])

\* qca8k_ipq4019_phylink_validate
Ipq4019Supported(port) ==
    IF port = 0 THEN {"INTERNAL"}
    ELSE IF port \in 1..5 THEN {"PSGMII"}
    ELSE {}

qca8k_ipq4019_phylink_validate(port, interface, supported, advertising) ==
    IF interface \notin Ipq4019Supported(port)
    THEN [supported |-> {}, advertising |-> advertising]
    ELSE IF port = 0
    THEN Bind(PortModes \cup {"1000baseT_Full", "Pause", "Asym_Pause"}, LAMBDA mask :
             [supported |-> supported \cap mask, advertising |-> advertising \cap mask])
    ELSE [supported |-> supported, advertising |-> supported]

\* The SGMII and 1000BASEX case of qca8k_phylink_mac_config; a read that
\* fails ends the call.
MacConfigSgmii(c, E, port, inband, interface, reg, cpu) ==
    Then(Ignore(qca8k_write(c, E, reg, QCA8K_PORT_PAD_SGMII_EN)), LAMBDA c1 :
    Bind(qca8k_read(c1, E, QCA8K_REG_PWS, E.garbage), LAMBDA a :
        IF a.ret # 0 THEN Void(a.c)
        ELSE Then(Ignore(qca8k_write(a.c, E, QCA8K_REG_PWS,
                      IF inband THEN And32(a.val, Not32(QCA8K_PWS_SERDES_AEN_DIS))
                      ELSE Or32(a.val, QCA8K_PWS_SERDES_AEN_DIS))), LAMBDA c2 :
             Bind(qca8k_read(c2, E, QCA8K_REG_SGMII_CTRL, a.val), LAMBDA b :
                 IF b.ret # 0 THEN Void(b.c)
                 ELSE Bind(Or32(b.val, Or32(Or32(QCA8K_SGMII_EN_PLL, QCA8K_SGMII_EN_RX),
                                            Or32(QCA8K_SGMII_EN_TX, QCA8K_SGMII_EN_SD))),
                           LAMBDA val :
                     Ignore(qca8k_write(b.c, E, QCA8K_REG_SGMII_CTRL,
                         IF port = cpu
                         THEN Or32(And32(val, Not32(QCA8K_SGMII_MODE_CTRL_MASK)),
                                   QCA8K_SGMII_MODE_CTRL_PHY)
                         ELSE IF interface = "SGMII"
                         THEN Or32(And32(val, Not32(QCA8K_SGMII_MODE_CTRL_MASK)),
                                   QCA8K_SGMII_MODE_CTRL_MAC)
                         ELSE IF interface = "1000BASEX"
                         THEN Or32(And32(val, Not32(QCA8K_SGMII_MODE_CTRL_MASK)),
                                   QCA8K_SGMII_MODE_CTRL_BASEX)
                         ELSE val)))))))

\* qca8k_phylink_mac_config; inband is phylink_autoneg_inband(mode), pv the
\* handle's switch_id, rgmii_tx_delay and rgmii_rx_delay, cpu the CPU port.
qca8k_phylink_mac_config(c, E, port, inband, interface, pv, cpu) ==
    IF port \notin {0, 6} THEN Void(c)
    ELSE IF interface \notin Qca8kSupported(port) \ {"NA"} THEN Void(c)
    ELSE IF port # 6 /\ inband THEN Void(c)
    ELSE Bind(IF port = 0 THEN QCA8K_REG_PORT0_PAD_CTRL ELSE QCA8K_REG_PORT6_PAD_CTRL,
              LAMBDA reg :
        IF interface = "RGMII"
        THEN Ignore(qca8k_write(c, E, reg, QCA8K_PORT_PAD_RGMII_EN))
        ELSE IF interface \in RgmiiModes
        THEN Then(Ignore(qca8k_write(c, E, reg,
                      Or32(Or32(QCA8K_PORT_PAD_RGMII_EN,
                                Or32(QCA8K_PORT_PAD_RGMII_TX_DELAY(pv.rgmii_tx_delay),
                                     QCA8K_PORT_PAD_RGMII_RX_DELAY(pv.rgmii_rx_delay))),
                           Or32(QCA8K_PORT_PAD_RGMII_TX_DELAY_EN,
                                QCA8K_PORT_PAD_RGMII_RX_DELAY_EN)))), LAMBDA c1 :
                 IF pv.switch_id = QCA8K_ID_QCA8337
                 THEN Ignore(qca8k_write(c1, E, QCA8K_REG_PORT5_PAD_CTRL,
                                         QCA8K_PORT_PAD_RGMII_RX_DELAY_EN))
                 ELSE Void(c1))
        ELSE MacConfigSgmii(c, E, port, inband, interface, reg, cpu))

\* qca8k_ipq4019_phylink_mac_config: nothing to configure.
qca8k_ipq4019_phylink_mac_config(c, E, port, inband, interface, pv, cpu) == Void(c)

(***************************************************************************)
(* qca8k-ipq4019.c: the PSGMII calibration of the probe.  k is what the    *)
(* calibration works on: priv->phy_t_status as the set of its bits, the    *)
(* ports whose AR40XX_REG_PORT_LOOKUP has AR40XX_PORT_LOOKUP_LOOPBACK set,  *)
(* the PHYs with MDIO broadcast write enabled (MMD 7 register 0x8028),     *)
(* the number of SerDes resets made, phy_t_status at the end of each cycle *)
(* and the steps taken.  hwp is the SerDes: its PHYs pass the loopback     *)
(* test from the reset number hwp.good + 1 on, and before that the PHYs    *)
(* hwp.phys fail the test hwp.test with the counters hwp.cnt.              *)
(***************************************************************************)
AR40XX_PSGMII_CALB_NUM == 100
QCA8K_IPQ4019_NUM_PORTS == 6
PORT_WRAPPER_PSGMII == 0
PORT_WRAPPER_RGMII == 3

Malibu == 0..(QCA8K_IPQ4019_NUM_PORTS - 2)

Calb0 == [phy_t_status |-> {}, loopback |-> {}, bcast |-> {}, resets |-> 0,
          status |-> << >>, ev |-> << >>]

Step(k, e) == [k EXCEPT !.ev = Append(@, e)]

\* The packet generator's counters of a PHY after a test run of count
\* packets.
PhyCounters(k, hwp, test, phy, count) ==
    IF k.resets <= hwp.good /\ test = hwp.test /\ phy \in hwp.phys
    THEN [tx_ok |-> count + hwp.cnt.tx_ok, tx_ok_high16 |-> hwp.cnt.tx_ok_high16,
          tx_error |-> hwp.cnt.tx_error,
          rx_ok |-> count + hwp.cnt.rx_ok, rx_ok_high16 |-> hwp.cnt.rx_ok_high16,
          rx_error |-> hwp.cnt.rx_error]
    ELSE [tx_ok |-> count, tx_ok_high16 |-> 0, tx_error |-> 0,
          rx_ok |-> count, rx_ok_high16 |-> 0, rx_error |-> 0]

\* A check of the counters that does not look at the error counter.
phytest_check_tx_ok_only(k, hwp, test, phy, count) ==
    Bind(PhyCounters(k, hwp, test, phy, count), LAMBDA r :
        <<r.tx_ok, r.tx_ok_high16>> = W(count))

\* tx_ok + (tx_ok_high16 << 16) of two 16-bit reads is the u32 with these
\* two words.
ar40xx_phytest_check_counters(k, hwp, test, phy, count) ==
    Bind(PhyCounters(k, hwp, test, phy, count), LAMBDA r :
        ~(<<r.tx_ok, r.tx_ok_high16>> # W(count) \/ r.tx_error # 0))

ar40xx_malibu_psgmii_ess_reset(k) ==
    [Step(k, "psgmii_ess_reset") EXCEPT !.resets = @ + 1]

ar40xx_psgmii_single_phy_testing(k, hwp, phy) ==
    IF ar40xx_phytest_check_counters(k, hwp, "single", phy, 4096)
    THEN [Step(k, "single") EXCEPT !.phy_t_status = @ \ {phy}]
    ELSE [Step(k, "single") EXCEPT !.phy_t_status = @ \cup {phy}]

ar40xx_psgmii_all_phy_testing(k, hwp) ==
    Bind({phy \in Malibu : ar40xx_phytest_check_counters(k, hwp, "all", phy, 4096)},
         LAMBDA ok :
        [Step(k, "all") EXCEPT !.phy_t_status =
             (@ \ {phy + 8 : phy \in ok}) \cup {phy + 8 : phy \in Malibu \ ok}])

RECURSIVE SinglePhys(_, _, _)
SinglePhys(k, hwp, phy) ==
    IF phy >= QCA8K_IPQ4019_NUM_PORTS - 1 THEN k
    ELSE Bind(ar40xx_psgmii_single_phy_testing(k, hwp, phy), LAMBDA k1 :
             SinglePhys(k1, hwp, phy + 1))

\* One pass of the body of the loop of ar40xx_psgmii_self_test up to the
\* test of phy_t_status.
CalbCycle(k, hwp) ==
    Bind([Step(k, "loopback") EXCEPT !.phy_t_status = {},
                                      !.loopback = @ \cup {phy + 1 : phy \in Malibu}],
         LAMBDA k1 :
    Bind(SinglePhys(k1, hwp, 0), LAMBDA k2 :
    Bind(ar40xx_psgmii_all_phy_testing(k2, hwp), LAMBDA k3 :
        [k3 EXCEPT !.status = Append(@, k3.phy_t_status)])))

\* One iteration of the loop: brk says that it left the loop by break.
CalbIter(k, hwp, i) ==
    Bind(CalbCycle(k, hwp), LAMBDA k1 :
        IF k1.phy_t_status # {}
        THEN [k |-> ar40xx_malibu_psgmii_ess_reset(k1), i |-> i + 1, brk |-> FALSE]
        ELSE [k |-> k1, i |-> i, brk |-> TRUE])

\* The next n iterations of the loop from i on, as the first half of them
\* followed, unless that half left the loop, by the second half.
RECURSIVE CalbLoop(_, _, _, _)
CalbLoop(k, hwp, i, n) ==
    IF n = 1 THEN CalbIter(k, hwp, i)
    ELSE Bind(CalbLoop(k, hwp, i, n \div 2), LAMBDA r :
             IF r.brk THEN r ELSE CalbLoop(r.k, hwp, r.i, n - n \div 2))

ar40xx_psgmii_self_test(k, hwp) ==
    Bind(ar40xx_malibu_psgmii_ess_reset(k), LAMBDA k1 :
    Bind([Step(k1, "setup") EXCEPT !.bcast = @ \cup Malibu], LAMBDA k2 :
    Bind(CalbLoop(k2, hwp, 0, AR40XX_PSGMII_CALB_NUM), LAMBDA r :
        Step(Step(r.k, IF r.i >= AR40XX_PSGMII_CALB_NUM THEN "cannot recover"
                       ELSE "recovered"),
             "recover"))))

ar40xx_psgmii_self_test_clean(k) ==
    [Step(k, "clean") EXCEPT !.loopback = @ \ {phy + 1 : phy \in Malibu},
                             !.bcast = @ \ Malibu]

ar40xx_mac_mode_init(k, hwp, mac_mode) ==
    IF mac_mode = PORT_WRAPPER_PSGMII
    THEN Bind(ar40xx_psgmii_self_test(Step(k, "malibu_init"), hwp), LAMBDA k1 :
             Step(Step(ar40xx_psgmii_self_test_clean(k1), "psgmii_write"), "psgmii_write"))
    ELSE IF mac_mode = PORT_WRAPPER_RGMII
    THEN Step(k, "rgmii_ctrl")
    ELSE k

\* qca8k_ipq4019_probe from clk_prepare_enable on; what comes before it is
\* the lookup of the resources the device tree names.
qca8k_ipq4019_probe(hwp, mac_mode) ==
    Bind(ar40xx_mac_mode_init(Step(Calb0, "ess_reset"), hwp, mac_mode), LAMBDA k :
        [k |-> Step(Step(k, "reset_control_put"), "schedule_delayed_work"), ret |-> 0])

EPROBE_DEFER == -517

\* The number of times e is among the steps ev.
Times(ev, e) == Cardinality({j \in 1..Len(ev) : ev[j] = e})

\* priv->dsa_init when the probe returns: INIT_DELAYED_WORK and
\* schedule_delayed_work, after the steps k.ev of the probe.
ProbedWork(k, mac_mode) ==
    [NoWork EXCEPT !.pending = TRUE, !.mac_mode = mac_mode,
                   !.ess_resets = Times(k.ev, "ess_reset"),
                   !.calbs = Times(k.ev, "setup")]

\* A work that goes through the ESS reset again when the registration is
\* deferred, as a deferred probe would.
dsa_init_work_reset_again(w, ret) ==
    IF ret = 0 THEN [w EXCEPT !.pending = FALSE, !.tries = @ + 1, !.ret = ret]
    ELSE IF ret = EPROBE_DEFER
    THEN [w EXCEPT !.pending = TRUE, !.tries = @ + 1, !.ret = ret,
                   !.ess_resets = @ + 1]
    ELSE [w EXCEPT !.pending = FALSE, !.tries = @ + 1, !.ret = ret, !.released = TRUE]

\* qca8k_dsa_init_work; ret is what dsa_register_switch returns.
qca8k_dsa_init_work(w, ret) ==
    IF ret = 0 THEN [w EXCEPT !.pending = FALSE, !.tries = @ + 1, !.ret = ret]
    ELSE IF ret = EPROBE_DEFER
    THEN [w EXCEPT !.pending = TRUE, !.tries = @ + 1, !.ret = ret]
    ELSE [w EXCEPT !.pending = FALSE, !.tries = @ + 1, !.ret = ret, !.released = TRUE]

(***************************************************************************)
(* Calls of the driver made by threads that run at the same time.  A       *)
(* thread is at a place pc of the call op it is in; a step of it is a      *)
(* mutex_lock or mutex_unlock of reg_mutex, a statement on the handle's    *)
(* memory, or a call of a function of the table engine or of a register    *)
(* accessor, and the release of the bus lock after such a call.  The       *)
(* accessors take bus->mdio_lock themselves (qca8k.c:111, 133, 156, 347);  *)
(* the thread is shown with the lock from the first accessor of the call   *)
(* to the return of the last.  held are the locks of the thread in the     *)
(* order it took them.                                                     *)
(***************************************************************************)
Threads == {1, 2}

Idle == [op |-> "idle", pc |-> "idle", a |-> << >>, E |-> << >>, n |-> 0, held |-> << >>,
         ret |-> 0, reg |-> Zero32, mtu |-> 0, fdb |-> ZeroFdb, cnt |-> 0,
         port_mask |-> 0, done |-> "", dret |-> 0, da |-> << >>, calls |-> 0]

TableOps == {"fdb_add", "fdb_del", "fdb_flush", "fdb_dump", "vlan_add", "vlan_del"}

\* A first statement that leaves the mutex out.
first_pc_no_lock(op, a) ==
    IF op = "vlan_add" /\ a.vid = 0 THEN "ret"
    ELSE IF op \in {"fdb_add", "fdb_del"} THEN "fdb_write"
    ELSE IF op \in TableOps THEN "lock"
    ELSE IF op = "change_mtu" THEN "store"
    ELSE IF op = "bridge_join" THEN "br_set"
    ELSE IF op = "stp_state_set" THEN "stp_rmw"
    ELSE "mdio_read"

\* The first statement of a call.
FirstPc(op, a) ==
    IF op = "vlan_add" /\ a.vid = 0 THEN "ret"
    ELSE IF op \in TableOps THEN "lock"
    ELSE IF op = "change_mtu" THEN "store"
    ELSE IF op = "bridge_join" THEN "br_set"
    ELSE IF op = "stp_state_set" THEN "stp_rmw"
    ELSE "mdio_read"

\* The statement after mutex_lock(&priv->reg_mutex).
AfterLock(op) ==
    IF op \in {"fdb_add", "fdb_del"} THEN "fdb_write"
    ELSE IF op = "fdb_flush" THEN "fdb_access"
    ELSE IF op = "fdb_dump" THEN "dump_test"
    ELSE "vlan_read"

\* A lock taken by the bus accessors at the mutex_lock of reg_mutex too.
uses_bus_at_lock(pc) ==
    pc \notin {"unlock", "ret", "store", "max", "dump_test", "br_set", "br_test"}

\* The statements that call a register accessor, which takes the bus lock.
UsesBus(pc) ==
    pc \notin {"lock", "unlock", "ret", "store", "max", "dump_test", "br_set", "br_test"}

Goto(th, c, pc) == [th |-> [th EXCEPT !.pc = pc], c |-> c]

\* ret = f(...); if (ret < 0) goto out; for a call result r
GotoRet(th, r, pc) ==
    [th |-> [th EXCEPT !.ret = r.ret, !.pc = IF r.ret < 0 THEN "unlock" ELSE pc],
     c |-> r.c]

\* ret = f(...); if (ret) goto out;
GotoRetNz(th, r, pc) ==
    [th |-> [th EXCEPT !.ret = r.ret, !.pc = IF r.ret # 0 THEN "unlock" ELSE pc],
     c |-> r.c]

\* The statement at th.pc of a port operation, run on c.
PortStmt(th, c) ==
    CASE th.pc = "store" ->
           Goto(th, [c EXCEPT !.port_mtu[th.a.port] = th.a.new_mtu], "max")
      [] th.pc = "max" ->
           Goto([th EXCEPT !.mtu = MaxMtu(c.port_mtu, 0, 0)], c, "write")
      [] th.pc = "write" ->
           Bind(qca8k_write(c, th.E, QCA8K_MAX_FRAME_SIZE,
                            W(th.mtu + ETH_HLEN + ETH_FCS_LEN)), LAMBDA r :
               [th |-> [th EXCEPT !.ret = r.ret, !.pc = "ret"], c |-> r.c])
      [] th.pc = "br_set" ->
           Goto([th EXCEPT !.cnt = 1, !.port_mask = 2^QCA8K_CPU_PORT],
                [c EXCEPT !.bridge_dev[th.a.port] = th.a.br], "br_test")
      [] th.pc = "br_test" ->
           IF th.cnt >= QCA8K_NUM_PORTS THEN Goto(th, c, "br_rmw")
           ELSE IF c.bridge_dev[th.cnt] # th.a.br
           THEN Goto([th EXCEPT !.cnt = @ + 1], c, "br_test")
           ELSE Goto(th, c, "br_reg_set")
      [] th.pc = "br_reg_set" ->
           Bind(qca8k_reg_set(c, th.E, QCA8K_PORT_LOOKUP_CTRL(th.cnt),
                              Bit32(th.a.port)), LAMBDA r :
               IF r.ret # 0
               THEN [th |-> [th EXCEPT !.ret = r.ret, !.pc = "ret"],
                     c |-> [r.c EXCEPT !.bridge_dev[th.a.port] = 0]]
               ELSE Goto([th EXCEPT !.cnt = @ + 1,
                                    !.port_mask = IF th.cnt # th.a.port
                                                  THEN BitOr(@, 2^th.cnt) ELSE @],
                         r.c, "br_test"))
      [] th.pc = "br_rmw" ->
           Bind(qca8k_rmw(c, th.E, QCA8K_PORT_LOOKUP_CTRL(th.a.port),
                          QCA8K_PORT_LOOKUP_MEMBER, W(th.port_mask)), LAMBDA r :
               [th |-> [th EXCEPT !.ret = r.ret, !.pc = "ret"],
                c |-> IF r.ret # 0 THEN [r.c EXCEPT !.bridge_dev[th.a.port] = 0]
                      ELSE r.c])
      [] th.pc = "stp_rmw" ->
           [th |-> [th EXCEPT !.ret = 0, !.pc = "ret"],
            c |-> qca8k_port_stp_state_set(c, th.E, th.a.port, th.a.state)]

\* The statement at th.pc, run on c.
Stmt(th, c) ==
    CASE th.pc = "lock" ->
           Goto([th EXCEPT !.cnt = QCA8K_NUM_FDB_RECORDS, !.fdb = ZeroFdb, !.ret = 0],
                mutex_lock(c), AfterLock(th.op))
      [] th.pc = "unlock" -> Goto(th, mutex_unlock(c), "ret")
      [] th.pc = "fdb_write" ->
           Goto(th, qca8k_fdb_write(c, th.E, th.a.vid, th.a.port_mask, th.a.mac,
                                    IF th.op = "fdb_add" THEN QCA8K_ATU_STATUS_STATIC
                                    ELSE 0),
                "fdb_access")
      [] th.pc = "fdb_access" ->
           Bind(qca8k_fdb_access(c, th.E,
                    IF th.op = "fdb_add" THEN QCA8K_FDB_LOAD
                    ELSE IF th.op = "fdb_del" THEN QCA8K_FDB_PURGE
                    ELSE QCA8K_FDB_FLUSH, -1), LAMBDA r :
               [th |-> [th EXCEPT !.ret = IF th.op = "fdb_flush" THEN 0 ELSE r.ret,
                                  !.pc = "unlock"],
                c |-> r.c])
      [] th.pc = "dump_test" ->
           IF th.cnt = 0 THEN Goto(th, c, "unlock")
           ELSE Goto([th EXCEPT !.cnt = @ - 1], c, "next_write")
      [] th.pc = "next_write" ->
           Goto(th, qca8k_fdb_write(c, th.E, th.fdb.vid, th.fdb.port_mask, th.fdb.mac,
                                    th.fdb.aging),
                "next_access")
      [] th.pc = "next_access" ->
           Bind(qca8k_fdb_access(c, th.E, QCA8K_FDB_NEXT, th.a.port), LAMBDA r :
               Goto(th, r.c, IF r.ret < 0 THEN "unlock" ELSE "next_read"))
      [] th.pc = "next_read" ->
           Bind(qca8k_fdb_read(c, th.E, th.fdb), LAMBDA r :
               IF r.ret # 0 \/ r.fdb.aging = 0 THEN Goto(th, r.c, "unlock")
               ELSE Goto([th EXCEPT !.fdb = r.fdb], r.c, "dump_test"))
      [] th.pc = "vlan_read" ->
           GotoRet(th, qca8k_vlan_access(c, th.E, QCA8K_VLAN_READ, th.a.vid),
                   "read_func0")
      [] th.pc = "read_func0" ->
           Bind(qca8k_read(c, th.E, QCA8K_REG_VTU_FUNC0, th.E.garbage), LAMBDA r :
               IF r.ret < 0 THEN GotoRet(th, r, "unlock")
               ELSE IF th.op = "vlan_add"
               THEN GotoRet([th EXCEPT !.reg =
                                 VtuSetMode(Or32(r.val, Or32(QCA8K_VTU_FUNC0_VALID,
                                                             QCA8K_VTU_FUNC0_IVL_EN)),
                                            th.a.port,
                                            IF th.a.untagged
                                            THEN QCA8K_VTU_FUNC0_EG_MODE_UNTAG
                                            ELSE QCA8K_VTU_FUNC0_EG_MODE_TAG)],
                            r, "write_func0")
               ELSE Bind(VtuSetMode(r.val, th.a.port, QCA8K_VTU_FUNC0_EG_MODE_NOT),
                         LAMBDA reg :
                        GotoRet([th EXCEPT !.reg = reg], r,
                                IF VtuLastMember(reg) THEN "vlan_purge"
                                ELSE "write_func0")))
      [] th.pc = "write_func0" ->
           GotoRetNz(th, qca8k_write(c, th.E, QCA8K_REG_VTU_FUNC0, th.reg), "vlan_load")
      [] th.pc = "vlan_load" ->
           GotoRet(th, qca8k_vlan_access(c, th.E, QCA8K_VLAN_LOAD, th.a.vid), "unlock")
      [] th.pc = "vlan_purge" ->
           GotoRet(th, qca8k_vlan_access(c, th.E, QCA8K_VLAN_PURGE, th.a.vid), "unlock")
      [] th.pc = "mdio_read" ->
           Bind(qca8k_mdio_read(c, th.E, th.a.port, th.a.regnum), LAMBDA r :
               [th |-> [th EXCEPT !.ret = r.ret, !.pc = "ret"], c |-> r.c])
      [] OTHER -> PortStmt(th, c)

\* The locks a thread holds after the statement at pc.
Held(held, pc) ==
    IF pc = "lock" THEN Append(held, "reg_mutex")
    ELSE IF pc = "unlock" THEN SelectSeq(held, LAMBDA l : l # "reg_mutex")
    ELSE held

Holds(th, l) == \E i \in 1..Len(th.held) : th.held[i] = l

(***************************************************************************)
(* The environments of a call, and the ghost record of the last call.      *)
(***************************************************************************)
Faults == {{}} \cup {{k} : k \in 1..MaxFault}

Garbage == {Zero32, Not32(Zero32)}

PhyData == 4660

EnvReg == [F : Faults, plan : {0}, texp : {1}, pdata : {0}, garbage : Garbage]

EnvPhy == [F : Faults, plan : {0, HwNever}, texp : 1..MaxPoll,
           pdata : {PhyData}, garbage : {Zero32}]

NoFault(E) == E.F = {}

Clean(log) == \A i \in 1..Len(log) : log[i].ok

SelIdx(log) == {i \in 1..Len(log) : log[i].kind = "sel"}

DataIdx(log) == {i \in 1..Len(log) : log[i].kind # "sel"}

\* No page-select of the call failed.
SelOk(log) == \A i \in SelIdx(log) : log[i].ok

NewSel(old, log) ==
    LET good == {i \in SelIdx(log) : log[i].ok}
    IN IF good = {} THEN old
       ELSE log[CHOOSE i \in good : \A j \in good : j <= i].arg

IsAccess(l) == l.op \in {"read", "write", "rmw", "phy_read", "phy_write"}

\* The page of the register a call addresses.
PageOf(a) == qca8k_split_addr(a).page

\* The ghost record of a call.  sel is lastSel at the start of the call; pw:
\* the previous call was a qca8k_write to the same register through the same
\* handle and none of its transfers failed; pp: the previous call was a
\* register access through the same handle to a register of the same page, it
\* reached the bus and no page-select of it failed.
\* What a call or a statement leaves in the page cache, the switch and the
\* handle.
CommitHw(h, cs) ==
    /\ qca8k_current_page' = cs.cache
    /\ hw' = [hw EXCEPT ![h] = [page |-> cs.page, regs |-> cs.regs,
                                 atu |-> cs.atu, vtu |-> cs.vtu, miss |-> cs.miss,
                                 mutex |-> cs.mutex,
                                 port_mtu |-> cs.port_mtu,
                                 bridge_dev |-> cs.bridge_dev,
                                 legacy_phy_port_mapping |->
                                     cs.legacy_phy_port_mapping,
                                 port_sts |-> cs.port_sts,
                                 dsa_init |-> cs.dsa_init]]

\* A call that runs from its entry to its return with no other thread in
\* the driver.
CommitArg(h, op, addr, val, ret, cs, arg) ==
    /\ CommitHw(h, cs)
    /\ UNCHANGED thr
    /\ last' = [op |-> op, h |-> h, addr |-> addr, val |-> val, ret |-> ret,
                log |-> cs.log, ev |-> cs.ev, arg |-> arg, sel |-> lastSel,
                pw |-> /\ last.op = "write" /\ last.h = h /\ last.addr = addr
                       /\ Clean(last.log),
                pp |-> /\ IsAccess(last) /\ last.h = h
                       /\ PageOf(last.addr) = PageOf(addr)
                       /\ SelOk(last.log) /\ last.log # << >>]
    /\ lastSel' = NewSel(lastSel, cs.log)

Commit(h, op, addr, val, ret, cs) == CommitArg(h, op, addr, val, ret, cs, << >>)

(***************************************************************************)
(* The driver's calls as actions.                                          *)
(***************************************************************************)
Probe(h, rst, pg, E) ==
    /\ h \notin live
    /\ Bind(Ctx(h, E), LAMBDA c0 :
        Bind(qca8k_sw_probe(c0, E, rst, pg), LAMBDA r :
           /\ Commit(h, "probe", QCA8K_REG_MASK_CTRL, r.val, r.ret, r.c)
           /\ live' = IF r.ret = 0 THEN live \cup {h} ELSE live))

Remove(h, E) ==
    /\ h \in live
    /\ Bind(Ctx(h, E), LAMBDA c0 :
        Bind(qca8k_sw_remove(c0, E, 0), LAMBDA c1 :
           Commit(h, "remove", QCA8K_REG_PORT_STATUS(0), Zero32, 0, c1)))
    /\ live' = live \ {h}

RegRead(h, a, E) ==
    /\ h \in live
    /\ Bind(Ctx(h, E), LAMBDA c0 :
        Bind(qca8k_read(c0, E, a, E.garbage), LAMBDA r :
           Commit(h, "read", a, r.val, r.ret, r.c)))
    /\ UNCHANGED live

RegWrite(h, a, v, E) ==
    /\ h \in live
    /\ Bind(Ctx(h, E), LAMBDA c0 :
        Bind(qca8k_write(c0, E, a, v), LAMBDA r :
           Commit(h, "write", a, v, r.ret, r.c)))
    /\ UNCHANGED live

RegRmw(h, a, mv, E) ==
    /\ h \in live
    /\ Bind(Ctx(h, E), LAMBDA c0 :
        Bind(qca8k_rmw(c0, E, a, mv[1], mv[2]), LAMBDA r :
           Commit(h, "rmw", a, mv[2], r.ret, r.c)))
    /\ UNCHANGED live

\* qca8k_rmw, qca8k_reg_set or qca8k_reg_clear (fn) of one of the two
\* transports; reg_set and reg_clear take their bits from val.  The ghost
\* record keeps the register's value before the call and the value the same
\* call leaves in it on the other transport when no transfer fails.
UpdateCall(transport, fn, c, E, a, mask, val) ==
    IF transport = "mdio"
    THEN IF fn = "rmw" THEN qca8k_rmw(c, E, a, mask, val)
         ELSE IF fn = "reg_set" THEN qca8k_reg_set(c, E, a, val)
         ELSE qca8k_reg_clear(c, E, a, val)
    ELSE IF fn = "rmw" THEN ipq4019_rmw(c, E, a, mask, val)
         ELSE IF fn = "reg_set" THEN ipq4019_reg_set(c, E, a, val)
         ELSE ipq4019_reg_clear(c, E, a, val)

Transports == {"mdio", "mmio"}

RegUpdate(h, transport, fn, a, mask, val, E) ==
    /\ h \in live
    /\ Bind(Ctx(h, E), LAMBDA c0 :
        Bind(UpdateCall(transport, fn, c0, E, a, mask, val), LAMBDA r :
        Bind(UpdateCall(CHOOSE t \in Transports : t # transport, fn, c0,
                        [E EXCEPT !.F = {}], a, mask, val), LAMBDA o :
           CommitArg(h, "update", a, val, r.ret, r.c,
                     [transport |-> transport, fn |-> fn, mask |-> mask, E |-> E,
                      old |-> HwReg(c0.regs, a), n |-> r.c.n,
                      peer |-> [ret |-> o.ret, val |-> HwReg(o.c.regs, a)]]))))
    /\ UNCHANGED live

GetEthtoolStats(h, port, data, E) ==
    /\ h \in live
    /\ Bind(Ctx(h, E), LAMBDA c0 :
        Bind(qca8k_get_ethtool_stats(c0, E, port, data), LAMBDA r :
           CommitArg(h, "get_ethtool_stats", QCA8K_PORT_MIB_COUNTER(port), Zero32, 0, r.c,
                     [port |-> port, E |-> E, data0 |-> data, data |-> r.data,
                      rets |-> r.rets])))
    /\ UNCHANGED live

\* phylink_validate and phylink_mac_config of the two variants of the driver.
Variants == {"qca8k", "ipq4019"}

VariantSupported(variant, port) ==
    IF variant = "qca8k" THEN Qca8kSupported(port) ELSE Ipq4019Supported(port)

PhylinkValidate(h, variant, port, interface, supported, advertising, E) ==
    /\ h \in live
    /\ Bind(IF variant = "qca8k"
            THEN qca8k_phylink_validate(port, interface, supported, advertising)
            ELSE qca8k_ipq4019_phylink_validate(port, interface, supported, advertising),
            LAMBDA r :
           CommitArg(h, "phylink_validate", 0, Zero32, 0, Ctx(h, E),
                     [variant |-> variant, port |-> port, interface |-> interface,
                      supported |-> r.supported, advertising |-> r.advertising]))
    /\ UNCHANGED live

PhylinkMacConfig(h, variant, port, inband, interface, pv, E) ==
    /\ h \in live
    /\ Bind(Ctx(h, E), LAMBDA c0 :
        Bind(IF variant = "qca8k"
             THEN qca8k_phylink_mac_config(c0, E, port, inband, interface, pv,
                                           QCA8K_CPU_PORT)
             ELSE qca8k_ipq4019_phylink_mac_config(c0, E, port, inband, interface, pv,
                                                   QCA8K_CPU_PORT), LAMBDA r :
           CommitArg(h, "phylink_mac_config", 0, Zero32, 0, r.c,
                     [variant |-> variant, port |-> port, interface |-> interface,
                      inband |-> inband])))
    /\ UNCHANGED live

\* The probe of the memory-mapped variant; the registers of the switch on
\* the MDIO bus are not part of it.
Ipq4019Probe(h, hwp, mac_mode, E) ==
    /\ h \notin live
    /\ Bind(qca8k_ipq4019_probe(hwp, mac_mode), LAMBDA r :
           CommitArg(h, "ipq4019_probe", 0, Zero32, r.ret,
                     [Ctx(h, E) EXCEPT !.dsa_init = ProbedWork(r.k, mac_mode)],
                     [hwp |-> hwp, mac_mode |-> mac_mode, k |-> r.k]))
    /\ live' = live \cup {h}

\* The MAC enable and link-auto bits of the status register of every port.
PmBits == Or32(Or32(QCA8K_PORT_STATUS_TXMAC, QCA8K_PORT_STATUS_RXMAC),
               QCA8K_PORT_STATUS_LINK_AUTO)

StatusBits(regs) ==
    [p \in 0..(QCA8K_NUM_PORTS - 1) |-> And32(HwReg(regs, QCA8K_REG_PORT_STATUS(p)), PmBits)]

Suspended == last.op = "suspend"

\* port_enable, port_disable, mac_link_up and mac_link_down of a running
\* system.
PortCall(h, op, port, link, E) ==
    /\ h \in live
    /\ ~Suspended
    /\ Bind(Ctx(h, E), LAMBDA c0 :
        Bind(IF op = "port_enable" THEN qca8k_port_enable(c0, E, port)
             ELSE IF op = "port_disable" THEN qca8k_port_disable(c0, E, port)
             ELSE IF op = "link_down" THEN qca8k_phylink_mac_link_down(c0, E, port)
             ELSE qca8k_phylink_mac_link_up(c0, E, port, link.inband, link.speed,
                                            link.duplex, link.tx_pause, link.rx_pause,
                                            port = QCA8K_CPU_PORT), LAMBDA c1 :
           CommitArg(h, op, QCA8K_REG_PORT_STATUS(port), Zero32, 0, c1,
                     [port |-> port])))
    /\ UNCHANGED live

\* The ghost record keeps the bits the ports had before the suspend.
Suspend(h, E) ==
    /\ h \in live
    /\ ~Suspended
    /\ Bind(Ctx(h, E), LAMBDA c0 :
        Bind(qca8k_suspend(c0, E), LAMBDA r :
           CommitArg(h, "suspend", QCA8K_REG_PORT_STATUS(0), Zero32, r.ret, r.c,
                     [before |-> StatusBits(c0.regs)])))
    /\ UNCHANGED live

Resume(h, E) ==
    /\ h \in live
    /\ Suspended
    /\ Bind(Ctx(h, E), LAMBDA c0 :
        Bind(qca8k_resume(c0, E), LAMBDA r :
           CommitArg(h, "resume", QCA8K_REG_PORT_STATUS(0), Zero32, r.ret, r.c,
                     [before |-> last.arg.before])))
    /\ UNCHANGED live

\* The delayed work of the switch runs; the driver is unbound when the
\* registration failed for good.
DsaInitWork(h, ret, E) ==
    /\ h \in live
    /\ hw[h].dsa_init.pending
    /\ hw[h].dsa_init.tries <= MaxDefer
    /\ Bind(qca8k_dsa_init_work(hw[h].dsa_init, ret), LAMBDA w :
          /\ CommitArg(h, "dsa_init_work", 0, Zero32, ret,
                       [Ctx(h, E) EXCEPT !.dsa_init = w], [w |-> w])
          /\ live' = IF w.released THEN live \ {h} ELSE live)

\* A thread enters a call.
ThreadCall(t, h, op, a, E) ==
    /\ h \in live
    /\ thr[t].op = "idle"
    /\ thr[t].calls < MaxCalls
    /\ thr' = [thr EXCEPT ![t] = [Idle EXCEPT !.op = op, !.pc = FirstPc(op, a),
                                              !.a = a, !.E = E,
                                              !.calls = thr[t].calls + 1]]
    /\ UNCHANGED varsT

\* A thread returns from its call.
ThreadReturn(t) ==
    /\ thr[t].pc = "ret"
    /\ ~Holds(thr[t], "mdio_lock")
    /\ thr' = [thr EXCEPT ![t] = [Idle EXCEPT !.done = thr[t].op, !.da = thr[t].a,
                                              !.dret = IF thr[t].op = "fdb_dump" THEN 0
                                                       ELSE thr[t].ret,
                                              !.held = thr[t].held,
                                              !.calls = thr[t].calls]]
    /\ UNCHANGED varsT

\* A thread gives the bus lock back.
ThreadBusUnlock(t) ==
    /\ Holds(thr[t], "mdio_lock")
    /\ thr' = [thr EXCEPT ![t].held = SelectSeq(@, LAMBDA l : l # "mdio_lock")]
    /\ UNCHANGED varsT

\* A thread runs the statement it is at; mutex_lock waits for the mutex,
\* an accessor for the bus lock.
CanStep(t, h) ==
    /\ thr[t].pc \notin {"idle", "ret"}
    /\ ~Holds(thr[t], "mdio_lock")
    /\ thr[t].pc = "lock" => ~hw[h].mutex
    /\ UsesBus(thr[t].pc) => \A u \in Threads : ~Holds(thr[u], "mdio_lock")

StepCtx(h, th) == [Ctx(h, th.E) EXCEPT !.n = th.n]

Stepped(t, h, th, r) ==
    /\ CommitHw(h, r.c)
    /\ thr' = [thr EXCEPT ![t] =
                  [r.th EXCEPT !.n = r.c.n,
                               !.held = Held(IF UsesBus(th.pc)
                                             THEN Append(@, "mdio_lock") ELSE @,
                                             th.pc)]]
    /\ UNCHANGED <<live, last, lastSel>>

ThreadStep(t, h) ==
    /\ CanStep(t, h)
    /\ Bind(thr[t], LAMBDA th :
        Bind(Stmt(th, StepCtx(h, th)), LAMBDA r : Stepped(t, h, th, r)))

\* The same step of a thread that is in a port operation.
PortStep(t, h) ==
    /\ CanStep(t, h)
    /\ Bind(thr[t], LAMBDA th :
        Bind(PortStmt(th, StepCtx(h, th)), LAMBDA r : Stepped(t, h, th, r)))

PhyRegnums == {2, QCA8K_MDIO_MASTER_MAX_REG}

PhyRead(h, legacy, port, regnum, E) ==
    /\ h \in live
    /\ Bind(Ctx(h, E), LAMBDA c0 :
        Bind(qca8k_phy_read(c0, E, legacy, port, regnum), LAMBDA r :
           CommitArg(h, "phy_read", QCA8K_MDIO_MASTER_CTRL, Zero32, r.ret, r.c,
                     [regnum |-> regnum])))
    /\ UNCHANGED live

PhyWrite(h, legacy, port, regnum, data, E) ==
    /\ h \in live
    /\ Bind(Ctx(h, E), LAMBDA c0 :
        Bind(qca8k_phy_write(c0, E, legacy, port, regnum, data), LAMBDA r :
           CommitArg(h, "phy_write", QCA8K_MDIO_MASTER_CTRL, W(data), r.ret, r.c,
                     [regnum |-> regnum])))
    /\ UNCHANGED live

\* A busy-wait helper on the command register its callers poll.  The MDIO
\* busy-wait reads without selecting a page: its callers have selected the page
\* of the MDIO master control register.
BusyWaitReg(kind) ==
    IF kind = "qca8k_mdio_busy_wait" THEN QCA8K_MDIO_MASTER_CTRL ELSE QCA8K_REG_ATU_FUNC

BusyWaitCall(kind, c, E) ==
    IF kind = "qca8k_busy_wait"
    THEN qca8k_busy_wait(c, E, QCA8K_REG_ATU_FUNC, QCA8K_ATU_FUNC_BUSY)
    ELSE IF kind = "ipq4019_busy_wait"
    THEN ipq4019_busy_wait(c, E, QCA8K_REG_ATU_FUNC, QCA8K_ATU_FUNC_BUSY)
    ELSE qca8k_mdio_busy_wait(c, E, QCA8K_MDIO_MASTER_CTRL, QCA8K_MDIO_MASTER_BUSY)

BusyWait(h, kind, E) ==
    /\ h \in live
    /\ kind = "qca8k_mdio_busy_wait" => hw[h].page = MdioPage
    /\ Bind(Ctx(h, E), LAMBDA c0 :
        Bind(BusyWaitCall(kind, c0, E), LAMBDA p :
           CommitArg(h, kind, BusyWaitReg(kind), p.val, p.ret, p.c,
                     [E |-> E, pend |-> BusyWaitReg(kind) \in PendingCmd(c0.regs),
                      ret1 |-> p.ret1, polls |-> p.polls])))
    /\ UNCHANGED live

\* The FDB operations of the switch (dsa_switch_ops port_fdb_add, port_fdb_del
\* and port_fdb_dump); stop says at which call the dump's visitor returns
\* non-zero.
FdbArg(port, mac, vid, stop, E) ==
    [port |-> port, mac |-> mac, vid |-> vid, stop |-> stop, E |-> E]

FdbAdd(h, port, mac, vid, E) ==
    /\ h \in live
    /\ Bind(Ctx(h, E), LAMBDA c0 :
        Bind(qca8k_port_fdb_add(c0, E, port, mac, vid), LAMBDA r :
           CommitArg(h, "fdb_add", QCA8K_REG_ATU_FUNC, Zero32, r.ret, r.c,
                     FdbArg(port, mac, vid, 0, E))))
    /\ UNCHANGED live

FdbDel(h, port, mac, vid, E) ==
    /\ h \in live
    /\ Bind(Ctx(h, E), LAMBDA c0 :
        Bind(qca8k_port_fdb_del(c0, E, port, mac, vid), LAMBDA r :
           CommitArg(h, "fdb_del", QCA8K_REG_ATU_FUNC, Zero32, r.ret, r.c,
                     FdbArg(port, mac, vid, 0, E))))
    /\ UNCHANGED live

FdbDump(h, port, stop, E) ==
    /\ h \in live
    /\ Bind(Ctx(h, E), LAMBDA c0 :
        Bind(qca8k_port_fdb_dump(c0, E, port, stop), LAMBDA r :
           CommitArg(h, "fdb_dump", QCA8K_REG_ATU_FUNC, Zero32, r.ret, r.c,
                     FdbArg(port, << >>, 0, stop, E))))
    /\ UNCHANGED live

\* The VLAN operations of the switch (dsa_switch_ops port_vlan_add and
\* port_vlan_del).
VlanArg(port, vid, untagged, pvid, E) ==
    [port |-> port, vid |-> vid, untagged |-> untagged, pvid |-> pvid, E |-> E]

VlanAdd(h, port, vid, untagged, pvid, E) ==
    /\ h \in live
    /\ Bind(Ctx(h, E), LAMBDA c0 :
        Bind(qca8k_port_vlan_add(c0, E, port, vid, untagged, pvid), LAMBDA r :
           CommitArg(h, "vlan_add", QCA8K_REG_VTU_FUNC1, Zero32, r.ret, r.c,
                     VlanArg(port, vid, untagged, pvid, E))))
    /\ UNCHANGED live

VlanDel(h, port, vid, E) ==
    /\ h \in live
    /\ Bind(Ctx(h, E), LAMBDA c0 :
        Bind(qca8k_port_vlan_del(c0, E, port, vid), LAMBDA r :
           CommitArg(h, "vlan_del", QCA8K_REG_VTU_FUNC1, Zero32, r.ret, r.c,
                     VlanArg(port, vid, FALSE, FALSE, E))))
    /\ UNCHANGED live

\* qca8k_setup, called once for a probed switch: the MTUs of the handle are
\* zero until a setup has run to its end.  The setup is the ds->ops->setup
\* call of dsa_register_switch, the last statement of qca8k_sw_probe: when it
\* fails the probe fails and the device-managed priv is released.
Registered(h) == h \in live /\ hw[h].port_mtu[QCA8K_CPU_PORT] # 0

\* The MDIO master of the switch is enabled.
MasterEnabled(h) ==
    And32(HwReg(h.regs, QCA8K_MDIO_MASTER_CTRL), QCA8K_MDIO_MASTER_EN) # Zero32

Setup(h, dt, E) ==
    /\ h \in live
    /\ ~Registered(h)
    /\ Bind(Ctx(h, E), LAMBDA c0 :
        Bind(qca8k_setup(c0, E, dt), LAMBDA r :
           /\ CommitArg(h, "setup", QCA8K_PORT_LOOKUP_CTRL(QCA8K_CPU_PORT), Zero32,
                        r.ret, r.c, [dt |-> dt, E |-> E, en |-> MasterEnabled(hw[h]),
                                     steps |-> SetupSteps(c0, E, dt)])
           /\ live' = IF r.ret = 0 THEN live ELSE live \ {h}))

\* The port operations of a registered switch (dsa_switch_ops
\* port_bridge_join, port_bridge_leave, port_stp_state_set, port_change_mtu);
\* a port joins a bridge when it is in none and leaves the one it is in.
BridgeJoin(h, port, br, E) ==
    /\ Registered(h)
    /\ hw[h].bridge_dev[port] = 0
    /\ Bind(Ctx(h, E), LAMBDA c0 :
        Bind(dsa_port_bridge_join(c0, E, port, br), LAMBDA r :
           CommitArg(h, "bridge_join", QCA8K_PORT_LOOKUP_CTRL(port), Zero32, r.ret, r.c,
                     [port |-> port, br |-> br, E |-> E])))
    /\ UNCHANGED live

BridgeLeave(h, port, E) ==
    /\ Registered(h)
    /\ hw[h].bridge_dev[port] # 0
    /\ Bind(Ctx(h, E), LAMBDA c0 :
        Bind(dsa_port_bridge_leave(c0, E, port), LAMBDA c1 :
           CommitArg(h, "bridge_leave", QCA8K_PORT_LOOKUP_CTRL(port), Zero32, 0, c1,
                     [port |-> port, br |-> hw[h].bridge_dev[port], E |-> E])))
    /\ UNCHANGED live

StpStateSet(h, port, state, E) ==
    /\ Registered(h)
    /\ Bind(Ctx(h, E), LAMBDA c0 :
        Bind(qca8k_port_stp_state_set(c0, E, port, state), LAMBDA c1 :
           CommitArg(h, "stp_state_set", QCA8K_PORT_LOOKUP_CTRL(port), Zero32, 0, c1,
                     [port |-> port, state |-> state, E |-> E])))
    /\ UNCHANGED live

ChangeMtu(h, port, new_mtu, E) ==
    /\ Registered(h)
    /\ Bind(Ctx(h, E), LAMBDA c0 :
        Bind(qca8k_port_change_mtu(c0, E, port, new_mtu), LAMBDA r :
           CommitArg(h, "change_mtu", QCA8K_MAX_FRAME_SIZE, Zero32, r.ret, r.c,
                     [port |-> port, new_mtu |-> new_mtu, E |-> E])))
    /\ UNCHANGED live

DoProbe(H, Envs) == \E h \in H, rst \in BOOLEAN, pg \in Pages, E \in Envs :
                        Probe(h, rst, pg, E)

DoRemove(H, Envs) == \E h \in H, E \in Envs : Remove(h, E)

DoRead(H, A, Envs) == \E h \in H, a \in A, E \in Envs : RegRead(h, a, E)

DoWrite(H, A, V, Envs) == \E h \in H, a \in A, v \in V, E \in Envs :
                              RegWrite(h, a, v, E)

DoRmw(H, A, M, Envs) == \E h \in H, a \in A, mv \in M, E \in Envs :
                            RegRmw(h, a, mv, E)

DoBusyWait(H, kind, Envs) == \E h \in H, E \in Envs : BusyWait(h, kind, E)

DoPhyRead(H, L, Envs) == \E h \in H, legacy \in L, r \in PhyRegnums, E \in Envs :
                             PhyRead(h, legacy, 1, r, E)

DoPhyWrite(H, L, Envs) == \E h \in H, legacy \in L, r \in PhyRegnums, E \in Envs :
                              PhyWrite(h, legacy, 1, r, PhyData, E)

(***************************************************************************)
(* The transport specifications.  At module load no switch is probed, the  *)
(* page cache holds 0xffff and each switch has the page of its power-on    *)
(* state selected.                                                         *)
(* SpecOne: one switch, probed once; register reads and writes of two      *)
(* values at three addresses, with transport faults.                       *)
(* SpecPage: one switch, probed once; every register accessor (read,       *)
(* write, rmw, phy_read, phy_write), with transport faults.                *)
(* SpecTwo: two switches on two MDIO buses, each probed, removed and       *)
(* probed again, register reads and writes on a working bus.               *)
(***************************************************************************)
NoLast ==
    [op |-> "none", h |-> 0, addr |-> 0, val |-> Zero32, ret |-> 0, log |-> << >>,
     ev |-> << >>, arg |-> << >>, sel |-> NoPage, pw |-> FALSE, pp |-> FALSE]

InitT ==
    /\ qca8k_current_page = NoPage
    /\ thr = [t \in Threads |-> Idle]
    /\ hw \in [Handles -> {[page |-> p, regs |-> NoRegs, atu |-> {}, vtu |-> NoVtu,
                             miss |-> m, mutex |-> FALSE, port_mtu |-> NoMtu,
                             bridge_dev |-> NoBridge,
                             legacy_phy_port_mapping |-> FALSE,
                             port_sts |-> NoSts, dsa_init |-> NoWork] :
                            p \in Pages, m \in {Zero32, VtuNoMember}}]
    /\ live = {}
    /\ last = NoLast
    /\ lastSel = NoPage

One == {1}

InitOne == InitT /\ hw[2].page = 0 /\ \A h \in Handles : hw[h].miss = Zero32

\* A register accessor's caller initialises what it passes in.
EnvOne == {E \in EnvReg : E.garbage = Zero32}

NextOne ==
    \/ DoProbe(One, EnvReg)
    \/ DoRead(One, RegAddrs, EnvOne)
    \/ DoWrite(One, RegAddrs, Vals, EnvOne)

SpecOne == InitOne /\ [][NextOne]_vars

\* In SpecPage a started MDIO command is complete at the first poll.
EnvPage == {E \in EnvPhy : E.plan = 0 /\ E.texp = 1}

\* The rmw of SpecPage sets bits (mask 0, value V1).
NextPage ==
    \/ DoProbe(One, EnvOne)
    \/ DoRead(One, RegAddrs, EnvOne)
    \/ DoWrite(One, RegAddrs, {V1}, EnvOne)
    \/ DoRmw(One, RegAddrs, {<<Zero32, V1>>}, EnvOne)
    \/ DoPhyRead(One, {TRUE}, EnvPage)
    \/ DoPhyWrite(One, {TRUE}, EnvPage)

SpecPage == InitOne /\ [][NextPage]_vars

(***************************************************************************)
(* SpecPhy: one switch; register writes on a working bus move the page,    *)
(* and phy_read and phy_write run with transport faults, MDIO commands     *)
(* that complete at once or never, and a poll deadline of one or two       *)
(* polls.                                                                  *)
(***************************************************************************)
NextPhy ==
    \/ DoProbe(One, EnvOne)
    \/ DoWrite(One, RegAddrs, {V1}, EnvOne)
    \/ DoPhyRead(One, {TRUE}, EnvPhy)
    \/ DoPhyWrite(One, {TRUE}, EnvPhy)

SpecPhy == InitOne /\ [][NextPhy]_vars

\* The registers of SpecTwo: 0x10 on page 0 and 0x210 on page 1 sit at the same
\* bus position.
TwoAddrs == {16, 528}

EnvOk == {E \in EnvReg : NoFault(E) /\ E.garbage = Zero32}

NextTwo ==
    \/ DoProbe(Handles, EnvOk)
    \/ DoRemove(Handles, EnvOk)
    \/ DoRead(Handles, TwoAddrs, EnvOk)
    \/ DoWrite(Handles, TwoAddrs, {V1}, EnvOk)

InitTwo == InitT /\ \A h \in Handles : hw[h].miss = Zero32

SpecTwo == InitTwo /\ [][NextTwo]_vars

(***************************************************************************)
(* SpecBusy: one switch; commands are started by writing the ATU function  *)
(* register and the MDIO master control register with the busy bit, and    *)
(* the three busy-waits poll them, with transport faults, commands that    *)
(* complete at the first or second poll or never, and a poll deadline that *)
(* passes after one or two polls.                                          *)
(***************************************************************************)
Plans == {0, 1, HwNever}

EnvBusy == [F : Faults, plan : Plans, texp : 1..MaxPoll, pdata : {PhyData},
            garbage : Garbage]

NextBusy ==
    \/ DoProbe(One, EnvOk)
    \/ DoWrite(One, {QCA8K_REG_ATU_FUNC}, {FdbFunc(QCA8K_FDB_FLUSH, -1)}, EnvOk)
    \/ DoWrite(One, {QCA8K_MDIO_MASTER_CTRL}, {MdioWriteCmd(0, 2, PhyData)}, EnvOk)
    \/ DoBusyWait(One, "qca8k_busy_wait", EnvBusy)
    \/ DoBusyWait(One, "qca8k_mdio_busy_wait", EnvBusy)
    \/ DoBusyWait(One, "ipq4019_busy_wait", EnvBusy)

SpecBusy == InitOne /\ [][NextBusy]_vars

(***************************************************************************)
(* SpecFdb: one switch and its address table of QCA8K_NUM_FDB_RECORDS      *)
(* entries.  Static entries are added and deleted for two addresses, two   *)
(* VLAN ids (0 stands for "no vid") and two ports, the switch learns one   *)
(* dynamic entry by itself, and the table is dumped per port with a        *)
(* visitor that never stops or stops at its second call; in a dump the     *)
(* first bus transfer may fail, or the command may never complete.         *)
(* SpecFdbFault: entries of port 1 are added on a bus where the first      *)
(* transfer of a call may fail, and the port is dumped.                    *)
(***************************************************************************)
M1 == <<2, 17, 34, 51, 68, 85>>
M2 == <<2, 17, 34, 51, 68, 102>>

Macs == {M1, M2}

FdbPorts == {1, 2}

FdbVids == {0, 2}

\* The entry the switch learns: dynamic (aging 1), in the default VLAN, port 1.
Learnt == [vid |-> QCA8K_PORT_VID_DEF, port_mask |-> 2, aging |-> 1, mac |-> M2]

\* The first transfer of the call fails.
EnvFault == {E \in EnvOne : E.F = {1}}

\* The command of the call never completes.
EnvNever == {E \in EnvBusy : /\ NoFault(E) /\ E.plan = HwNever
                             /\ E.texp = 1 /\ E.garbage = Zero32}

HwLearn(h) ==
    /\ h \in live
    /\ \A x \in hw[h].atu : ~SameKey(x, Learnt)
    /\ Cardinality(hw[h].atu) < QCA8K_NUM_FDB_RECORDS
    /\ hw' = [hw EXCEPT ![h].atu = @ \cup {Learnt}]
    /\ last' = [NoLast EXCEPT !.op = "learn", !.h = h]
    /\ UNCHANGED <<qca8k_current_page, live, lastSel, thr>>

DoFdbAdd(P, Envs) == \E port \in P, mac \in Macs, vid \in FdbVids, E \in Envs :
                         FdbAdd(1, port, mac, vid, E)

DoFdbDel(Envs) == \E port \in FdbPorts, mac \in Macs, vid \in FdbVids, E \in Envs :
                      FdbDel(1, port, mac, vid, E)

DoFdbDump(P, Stops, Envs) == \E port \in P, stop \in Stops, E \in Envs :
                                 FdbDump(1, port, stop, E)

NextFdb ==
    \/ DoProbe(One, EnvOk)
    \/ DoFdbAdd(FdbPorts, EnvOk)
    \/ DoFdbDel(EnvOk)
    \/ DoFdbDump(FdbPorts, {0, 2}, EnvOk)
    \/ DoFdbDump(FdbPorts, {0}, EnvFault \cup EnvNever)
    \/ HwLearn(1)

SpecFdb == InitOne /\ [][NextFdb]_vars

NextFdbFault ==
    \/ DoProbe(One, EnvOk)
    \/ DoFdbAdd({1}, EnvOk \cup EnvFault)
    \/ DoFdbDump({1}, {0}, EnvOk)

SpecFdbFault == InitOne /\ [][NextFdbFault]_vars

(***************************************************************************)
(* SpecVlan: one switch, of either kind of READ miss, and its VLAN table.  *)
(* Two ports are added to and deleted from VLAN 0 and VLAN 2, tagged or    *)
(* untagged, VLAN 2 also as the pvid of port 1, on a working bus.          *)
(***************************************************************************)
VlanPorts == {1, 2}

VlanVids == {0, 2}

InitVlan == InitT /\ hw[2].page = 0 /\ hw[2].miss = Zero32

DoVlanAdd(Envs) == \E port \in VlanPorts, vid \in VlanVids, untagged \in BOOLEAN, E \in Envs :
                      \E pvid \in {port = 1 /\ vid = 2, FALSE} : VlanAdd(1, port, vid, untagged, pvid, E)

DoVlanDel(Envs) == \E port \in VlanPorts, vid \in VlanVids, E \in Envs :
                      VlanDel(1, port, vid, E)

NextVlan ==
    \/ DoProbe(One, EnvOk)
    \/ DoVlanAdd(EnvOk)
    \/ DoVlanDel(EnvOk)

SpecVlan == InitVlan /\ [][NextVlan]_vars

(***************************************************************************)
(* SpecFull: one switch whose tables fill up.  Port 1 adds four addresses  *)
(* to an address table of QCA8K_NUM_FDB_RECORDS entries and joins three    *)
(* VLANs of a VLAN table of MaxVlans entries; the first transfer of a     *)
(* VLAN call may fail and its command may never complete.                  *)
(***************************************************************************)
FullVids == {2, 3, 4}

DoVlanAddFull(Envs) == \E vid \in FullVids, E \in Envs : VlanAdd(1, 1, vid, TRUE, FALSE, E)

NextFull ==
    \/ DoProbe(One, EnvOk)
    \/ DoFdbAdd({1}, EnvOk)
    \/ DoVlanAddFull(EnvOk \cup EnvFault \cup EnvNever)

SpecFull == InitOne /\ [][NextFull]_vars

(***************************************************************************)
(* SpecBridge: one switch with the CPU port 0 and the user ports 1..5, all *)
(* with internal PHYs.  After its setup the ports 1, 2 and 3 join and      *)
(* leave two bridges; a transfer of a join may fail, and so may the write  *)
(* of the CPU port's members in the setup.                                 *)
(***************************************************************************)
UserPorts == 1..5

Dt == [cpu |-> QCA8K_CPU_PORT, user |-> UserPorts, ext |-> {}, mdio |-> FALSE]

BridgePorts == {1, 2, 3}

Bridges == {1, 2}

\* The setup's transfer that writes the low word of the CPU port's members:
\* the third of the first qca8k_rmw of SetupTail (read, read, write, write; the
\* page is selected already).
CpuMemberWrite(c, E) == SetupHead(c, E, Dt).c.n + 3

DoSetup(Envs) ==
    \E E \in Envs, fault \in BOOLEAN :
        Bind(IF fault THEN [E EXCEPT !.F = {CpuMemberWrite(Ctx(1, E), E)}] ELSE E,
             LAMBDA E1 : Setup(1, Dt, E1))

DoBridgeJoin(Envs) == \E port \in BridgePorts, br \in Bridges, E \in Envs :
                          BridgeJoin(1, port, br, E)

DoBridgeLeave(Envs) == \E port \in BridgePorts, E \in Envs : BridgeLeave(1, port, E)

\* The transfers of a join that may fail.  The page of the lookup registers
\* is selected, so that every qca8k_rmw is four transfers (read, read, write,
\* write): the low-word write of the first one, the first read of the second
\* one and the low-word write of the second one.
JoinFaults == {3, 5, 7}

EnvJoin == {[E EXCEPT !.F = F] : E \in EnvOk, F \in {{}} \cup {{k} : k \in JoinFaults}}

NextBridge ==
    \/ DoProbe(One, EnvOk)
    \/ DoSetup(EnvOk)
    \/ DoBridgeJoin(EnvJoin)
    \/ DoBridgeLeave(EnvOk)

SpecBridge == InitOne /\ [][NextBridge]_vars

(***************************************************************************)
(* SpecStp: the switch of SpecBridge on a working bus.  The STP state of   *)
(* the ports 1 and 2 is set to each of the five bridge states and to a     *)
(* value that is none of them, and the two ports join bridge 1.            *)
(***************************************************************************)
StpPorts == {1, 2}

StpStates == {BR_STATE_DISABLED, BR_STATE_LISTENING, BR_STATE_LEARNING,
              BR_STATE_FORWARDING, BR_STATE_BLOCKING, 5}

DoStpStateSet(Envs) == \E port \in StpPorts, state \in StpStates, E \in Envs :
                           StpStateSet(1, port, state, E)

DoJoinOne(Envs) == \E port \in StpPorts, E \in Envs : BridgeJoin(1, port, 1, E)

NextStp ==
    \/ DoProbe(One, EnvOk)
    \/ DoSetup(EnvOk)
    \/ DoJoinOne(EnvOk)
    \/ DoStpStateSet(EnvOk)

SpecStp == InitOne /\ [][NextStp]_vars

(***************************************************************************)
(* SpecMtu: the switch of SpecBridge; the MTU of the ports 1 and 2 is      *)
(* changed between 1500 and 9000, and one of the first MaxFault transfers  *)
(* of a change may fail.                                                   *)
(***************************************************************************)
MtuPorts == {1, 2}

Mtus == {1500, 9000}

DoChangeMtu(Envs) == \E port \in MtuPorts, new_mtu \in Mtus, E \in Envs :
                         ChangeMtu(1, port, new_mtu, E)

NextMtu ==
    \/ DoProbe(One, EnvOk)
    \/ DoSetup(EnvOk)
    \/ DoChangeMtu(EnvOne)

SpecMtu == InitOne /\ [][NextMtu]_vars

(***************************************************************************)
(* SpecAttach: one switch is probed and set up from device trees whose     *)
(* user ports have internal PHYs, external PHYs, both kinds or do not      *)
(* exist, with or without an mdio node; the MDIO master may have been left *)
(* enabled by an earlier configuration, and one of the first               *)
(* MaxAttachFault transfers of a setup may fail.                           *)
(***************************************************************************)
MaxAttachFault == 24

DtStyles ==
    {[cpu |-> QCA8K_CPU_PORT, user |-> UserPorts, ext |-> X, mdio |-> m] :
        X \in {{}, {1}, UserPorts}, m \in BOOLEAN}
    \cup {[cpu |-> QCA8K_CPU_PORT, user |-> {}, ext |-> {}, mdio |-> FALSE]}

EnvAttach == {[E EXCEPT !.F = F] : E \in EnvOk,
                                   F \in {{}} \cup {{k} : k \in 1..MaxAttachFault}}

DoAttach(Envs) == \E dt \in DtStyles, E \in Envs : Setup(1, dt, E)

NextAttach ==
    \/ DoProbe(One, EnvOk)
    \/ DoWrite(One, {QCA8K_MDIO_MASTER_CTRL}, {QCA8K_MDIO_MASTER_EN}, EnvOk)
    \/ DoAttach(EnvAttach)

SpecAttach == InitOne /\ [][NextAttach]_vars

(***************************************************************************)
(* SpecRmw: the registers of one switch are written and then updated with  *)
(* qca8k_rmw, qca8k_reg_set and qca8k_reg_clear through the paged and      *)
(* through the memory-mapped transport, with masks that cover the value    *)
(* and masks that do not, on two registers of different pages; the first   *)
(* transfer of an update may fail.                                         *)
(***************************************************************************)
UpdateFns == {"rmw", "reg_set", "reg_clear"}

\* Bit 0 and bit 16: one bit in each word of a register.
V2 == <<1, 1>>

RmwAddrs == {16, 528}

RmwMasks == {Zero32, <<1, 0>>}

RmwVals == {<<1, 0>>, V2}

\* qca8k_reg_set and qca8k_reg_clear have no mask.
UpdateCalls ==
    {<<"rmw", mask, val>> : mask \in RmwMasks, val \in RmwVals}
    \cup {<<fn, Zero32, val>> : fn \in UpdateFns \ {"rmw"}, val \in RmwVals}

DoUpdate(Envs) ==
    \E transport \in Transports, call \in UpdateCalls, a \in RmwAddrs, E \in Envs :
        RegUpdate(1, transport, call[1], a, call[2], call[3], E)

NextRmw ==
    \/ DoProbe(One, EnvOk)
    \/ DoWrite(One, RmwAddrs, {V2}, EnvOk)
    \/ DoUpdate(EnvOk \cup EnvFault)

SpecRmw == InitOne /\ [][NextRmw]_vars

(***************************************************************************)
(* SpecStats: the switch counts frames on port 1 (HwCount puts a value of   *)
(* its own in each MIB counter of the port, for MaxRounds rounds of        *)
(* traffic), and the counters of the port are collected into a buffer that *)
(* holds a mark in every slot; one of the                                  *)
(* transfers StatFaults of a collection may fail: the page select and the  *)
(* reads of the first counters, and the reads of the counters 14 to 16,    *)
(* the first 2-register counters among them.                               *)
(***************************************************************************)
StatFaults == {1, 2, 3, 4, 30, 31, 32, 33, 34, 35, 36, 37}

StatPorts == {1}

MaxRounds == 3

MibIdx == 0..(Len(ar8327_mib) - 1)

\* What the caller's buffer holds before the collection.
Stale == <<Not32(Zero32), Not32(Zero32)>>

RECURSIVE StaleBuffer(_)
StaleBuffer(n) == IF n = 0 THEN << >> ELSE Append(StaleBuffer(n - 1), Stale)

\* What the switch has counted in counter i of a port after t rounds of
\* traffic, and in the upper half of a 2-register counter.
CountLo(port, i, t) == <<256 * t + i + 1, port>>

CountHi(port, i, t) == <<i + 1, 4096 * t + port>>

\* The words of the MIB counters of a port, as <<location, word>>, and the
\* register file with them.
MibWords(port, t) ==
    UNION {{<<LoLoc(MibReg(port, i)), CountLo(port, i, t)[1]>>,
            <<HiLoc(MibReg(port, i)), CountLo(port, i, t)[2]>>} : i \in MibIdx}
    \cup UNION {{<<LoLoc(MibReg(port, i) + 4), CountHi(port, i, t)[1]>>,
                 <<HiLoc(MibReg(port, i) + 4), CountHi(port, i, t)[2]>>} :
                i \in {j \in MibIdx : ar8327_mib[j + 1][1] = 2}}

HwCounted(regs, port, t) ==
    Bind(MibWords(port, t), LAMBDA ws :
        [loc \in {w[1] : w \in ws} |-> (CHOOSE w \in ws : w[1] = loc)[2]] @@ regs)

HwCount(h, port, t) ==
    /\ h \in live
    /\ HwReg(hw[h].regs, MibReg(port, 0)) # CountLo(port, 0, t)
    /\ hw' = [hw EXCEPT ![h].regs = HwCounted(@, port, t)]
    /\ last' = [NoLast EXCEPT !.op = "count", !.h = h]
    /\ UNCHANGED <<qca8k_current_page, live, lastSel, thr>>

EnvStats == {[E EXCEPT !.F = F] : E \in EnvOk,
                                  F \in {{}} \cup {{k} : k \in StatFaults}}

DoHwCount == \E port \in StatPorts, t \in 1..MaxRounds : HwCount(1, port, t)

DoGetEthtoolStats(Envs) ==
    \E port \in StatPorts, E \in Envs :
        GetEthtoolStats(1, port, StaleBuffer(Len(ar8327_mib)), E)

NextStats ==
    \/ DoProbe(One, EnvOk)
    \/ DoHwCount
    \/ DoGetEthtoolStats(EnvStats)

SpecStats == InitOne /\ [][NextStats]_vars

(***************************************************************************)
(* SpecPhylink: phylink validates and configures interface modes on the    *)
(* ports 0, 1 and 6 and on a port the switch does not have, for both       *)
(* variants of the driver, with a full set of link modes.                  *)
(***************************************************************************)
PhylinkPorts == {0, 1, 6, QCA8K_NUM_PORTS}

Interfaces == {"INTERNAL", "GMII", "RGMII_ID", "SGMII", "1000BASEX", "PSGMII"}

LinkModes ==
    PortModes \cup {"Autoneg", "1000baseT_Full", "10baseT_Half", "10baseT_Full",
                    "100baseT_Half", "100baseT_Full", "Pause", "Asym_Pause",
                    "1000baseX_Full", "10000baseT_Full"}

\* What the probe and the device tree leave in priv.
Priv8337 == [switch_id |-> QCA8K_ID_QCA8337, rgmii_tx_delay |-> 1, rgmii_rx_delay |-> 2]

DoPhylinkValidate(Envs) ==
    \E variant \in Variants, port \in PhylinkPorts, interface \in Interfaces,
       E \in Envs :
        PhylinkValidate(1, variant, port, interface, LinkModes, LinkModes, E)

DoPhylinkMacConfig(Envs) ==
    \E variant \in Variants, port \in PhylinkPorts, interface \in Interfaces,
       inband \in BOOLEAN, E \in Envs :
        PhylinkMacConfig(1, variant, port, inband, interface, Priv8337, E)

NextPhylink ==
    \/ DoProbe(One, EnvOk)
    \/ DoPhylinkValidate(EnvOk)
    \/ DoPhylinkMacConfig(EnvOk)

SpecPhylink == InitOne /\ [][NextPhylink]_vars

(***************************************************************************)
(* SpecCalb: the memory-mapped variant is probed on a SerDes that passes   *)
(* the loopback test at once, after some resets, or never.                 *)
(***************************************************************************)
\* What the PHYs that fail show: packets missing, a carry into the upper
\* counter, or transmit errors.
GoodCounters == [tx_ok |-> 0, tx_ok_high16 |-> 0, tx_error |-> 0,
                 rx_ok |-> 0, rx_ok_high16 |-> 0, rx_error |-> 0]

BadCounters == {[GoodCounters EXCEPT !.tx_ok = -1],
                [GoodCounters EXCEPT !.tx_ok_high16 = 1],
                [GoodCounters EXCEPT !.tx_error = 1]}

HwPlans == [good : 0..AR40XX_PSGMII_CALB_NUM, test : {"single", "all"},
            phys : {{0}, {QCA8K_IPQ4019_NUM_PORTS - 2}}, cnt : BadCounters]

DoIpq4019Probe(HwP, Envs) ==
    \E hwp \in HwP, mac_mode \in {PORT_WRAPPER_PSGMII, PORT_WRAPPER_RGMII},
       E \in Envs :
        Ipq4019Probe(2, hwp, mac_mode, E)

NextCalb ==
    \/ DoProbe(One, EnvOk)
    \/ DoIpq4019Probe(HwPlans, EnvOk)

SpecCalb == InitOne /\ [][NextCalb]_vars

(***************************************************************************)
(* SpecLoopback: the same probe on a SerDes whose failing PHYs lose or     *)
(* corrupt packets in either direction, for the first MaxBadResets resets  *)
(* at most.                                                                *)
(***************************************************************************)
RxBadCounters == {[GoodCounters EXCEPT !.rx_ok = -1],
                  [GoodCounters EXCEPT !.rx_ok_high16 = 1],
                  [GoodCounters EXCEPT !.rx_error = 1]}

LoopbackPlans == [good : 0..MaxBadResets, test : {"single", "all"},
                  phys : {{0}, {QCA8K_IPQ4019_NUM_PORTS - 2}},
                  cnt : BadCounters \cup RxBadCounters]

NextLoopback ==
    \/ DoProbe(One, EnvOk)
    \/ DoIpq4019Probe(LoopbackPlans, EnvOk)

SpecLoopback == InitOne /\ [][NextLoopback]_vars

(***************************************************************************)
(* SpecWork: the memory-mapped variant is probed and its delayed work runs *)
(* until dsa_register_switch returns 0 or an error other than a deferral;  *)
(* a driver that was unbound is probed again.                              *)
(***************************************************************************)
WorkPlans == {hwp \in LoopbackPlans : hwp.good <= 1 /\ hwp.phys = {0}}

RegisterRets == {0, EPROBE_DEFER, EINVAL}

DoDsaInitWork(Envs) == \E ret \in RegisterRets, E \in Envs : DsaInitWork(2, ret, E)

NextWork ==
    \/ DoProbe(One, EnvOk)
    \/ DoIpq4019Probe(WorkPlans, EnvOk)
    \/ DoDsaInitWork(EnvOk)

SpecWork == InitOne /\ [][NextWork]_vars

(***************************************************************************)
(* SpecPm: the CPU port and two user ports of one switch are enabled and   *)
(* disabled, their links come up (in-band, or at a fixed or unknown speed) *)
(* and go down, and the system is suspended and resumed; no transfer       *)
(* fails.                                                                  *)
(***************************************************************************)
PmPorts == {QCA8K_CPU_PORT, 1, 2}

Links == [inband : BOOLEAN, speed : {SPEED_1000, SPEED_UNKNOWN}, duplex : {DUPLEX_FULL},
          tx_pause : {FALSE}, rx_pause : {FALSE}]

NoLink == [inband |-> FALSE, speed |-> SPEED_UNKNOWN, duplex |-> DUPLEX_HALF,
           tx_pause |-> FALSE, rx_pause |-> FALSE]

DoPortEnable(Envs) == \E port \in PmPorts, E \in Envs :
                          PortCall(1, "port_enable", port, NoLink, E)

DoPortDisable(Envs) == \E port \in PmPorts, E \in Envs :
                           PortCall(1, "port_disable", port, NoLink, E)

DoLinkUp(Envs) == \E port \in PmPorts, link \in Links, E \in Envs :
                      PortCall(1, "link_up", port, link, E)

DoLinkDown(Envs) == \E port \in PmPorts, E \in Envs :
                        PortCall(1, "link_down", port, NoLink, E)

DoSuspend(Envs) == \E E \in Envs : Suspend(1, E)

DoResume(Envs) == \E E \in Envs : Resume(1, E)

NextPm ==
    \/ DoProbe(One, EnvOk)
    \/ DoPortEnable(EnvOk)
    \/ DoPortDisable(EnvOk)
    \/ DoLinkUp(EnvOk)
    \/ DoLinkDown(EnvOk)
    \/ DoSuspend(EnvOk)
    \/ DoResume(EnvOk)

SpecPm == InitOne /\ [][NextPm]_vars

(***************************************************************************)
(* SpecThreads: two threads call the table operations, change_mtu and a    *)
(* PHY read on one switch at the same time; a table operation may meet a   *)
(* failing transfer or a command that never completes.                     *)
(***************************************************************************)
ThreadArgs(op) ==
    IF op \in {"fdb_add", "fdb_del"} THEN {[vid |-> 1, port_mask |-> 2, mac |-> M1]}
    ELSE IF op = "fdb_flush" THEN {<< >>}
    ELSE IF op = "fdb_dump" THEN {[port |-> 1]}
    ELSE IF op = "vlan_add" THEN {[port |-> 1, vid |-> v, untagged |-> FALSE] : v \in {0, 2}}
    ELSE IF op = "vlan_del" THEN {[port |-> 1, vid |-> 2]}
    ELSE IF op = "change_mtu" THEN {[port |-> 1, new_mtu |-> 1500]}
    ELSE {[port |-> 1, regnum |-> 2]}

EnvThreads == EnvOk \cup EnvFault \cup EnvNever

DoThreadCall(Ops, Envs) ==
    \E t \in Threads, op \in Ops, E \in Envs : \E a \in ThreadArgs(op) :
        ThreadCall(t, 1, op, a, E)

DoThreadStep == \E t \in Threads : ThreadStep(t, 1)

DoPortStep == \E t \in Threads : PortStep(t, 1)

DoThreadBusUnlock == \E t \in Threads : ThreadBusUnlock(t)

DoThreadReturn == \E t \in Threads : ThreadReturn(t)

NextThreads ==
    \/ DoProbe(One, EnvOk)
    \/ DoThreadCall(TableOps, EnvThreads)
    \/ DoThreadCall({"change_mtu", "phy_read"}, EnvOk)
    \/ DoThreadStep
    \/ DoThreadBusUnlock
    \/ DoThreadReturn

SpecThreads == InitOne /\ [][NextThreads]_vars

(***************************************************************************)
(* SpecJoinRace: after the setup, thread t brings port t into the bridge   *)
(* while the other thread brings its port into the same bridge; no         *)
(* transfer fails.                                                         *)
(***************************************************************************)
DoJoinCall(Envs) ==
    \E t \in Threads, E \in Envs :
        /\ Registered(1)
        /\ ThreadCall(t, 1, "bridge_join", [port |-> t, br |-> 1], E)

NextJoinRace ==
    \/ DoProbe(One, EnvOk)
    \/ DoSetup(EnvOk)
    \/ DoJoinCall(EnvOk)
    \/ DoPortStep
    \/ DoThreadBusUnlock
    \/ DoThreadReturn

SpecJoinRace == InitOne /\ [][NextJoinRace]_vars

(***************************************************************************)
(* SpecRmwRace: after the setup port 1 is brought into the bridge; then    *)
(* thread 1 sets the STP state of port 1 while thread 2 brings port 2 into *)
(* the same bridge, which sets a member bit in the register of port 1; no  *)
(* transfer fails.                                                         *)
(***************************************************************************)
DoFirstJoin(Envs) ==
    \E E \in Envs :
        /\ \A t \in Threads : thr[t] = Idle
        /\ BridgeJoin(1, 1, 1, E)

DoRmwCall(Envs) ==
    \E E \in Envs, state \in {BR_STATE_BLOCKING, BR_STATE_FORWARDING} :
        /\ Registered(1)
        /\ hw[1].bridge_dev[1] = 1
        /\ \/ ThreadCall(1, 1, "stp_state_set", [port |-> 1, state |-> state], E)
           \/ ThreadCall(2, 1, "bridge_join", [port |-> 2, br |-> 1], E)

NextRmwRace ==
    \/ DoProbe(One, EnvOk)
    \/ DoSetup(EnvOk)
    \/ DoFirstJoin(EnvOk)
    \/ DoRmwCall(EnvOk)
    \/ DoPortStep
    \/ DoThreadBusUnlock
    \/ DoThreadReturn

SpecRmwRace == InitOne /\ [][NextRmwRace]_vars

(***************************************************************************)
(* SpecMtuRace: after the setup, thread t changes the MTU of port t while  *)
(* the other thread changes the MTU of its port; no transfer fails.        *)
(***************************************************************************)
DoMtuCall(Envs) ==
    \E t \in Threads, new_mtu \in Mtus, E \in Envs :
        /\ Registered(1)
        /\ ThreadCall(t, 1, "change_mtu", [port |-> t, new_mtu |-> new_mtu], E)

NextMtuRace ==
    \/ DoProbe(One, EnvOk)
    \/ DoSetup(EnvOk)
    \/ DoMtuCall(EnvOk)
    \/ DoPortStep
    \/ DoThreadBusUnlock
    \/ DoThreadReturn

SpecMtuRace == InitOne /\ [][NextMtuRace]_vars

(***************************************************************************)
(* Properties of the paged transport.                                      *)
(***************************************************************************)
\* C1: on a working bus a qca8k_read that follows a qca8k_write(a, v) to the
\* same register through the same handle returns v; every read whose transfers
\* succeed returns what the switch's register file holds at (page, r2, r1) of
\* its address; and a qca8k_write leaves the registers at every other address
\* as they were.
C1_RoundTrip ==
    [][/\ (last'.op = "read" /\ Clean(last'.log)) =>
              /\ last'.ret = 0
              /\ last'.val = HwReg(hw[last'.h].regs, last'.addr)
              /\ (last'.pw => last'.val = last.val)
       /\ (last'.op = "write") =>
              \A b \in RegAddrs \ {last'.addr} :
                  HwReg(hw'[last'.h].regs, b) = HwReg(hw[last'.h].regs, b)]_vars

\* A read right after a write of V1 to the same register, no transfer failed.
C1_Witness ==
    /\ last.op = "read" /\ last.pw /\ Clean(last.log)
    /\ last.val = V1 /\ last.addr = 528

\* C2: a register access (read, write, rmw, phy_read, phy_write) that reaches
\* the bus issues a page-select exactly when the page of its register differs
\* from the page of the previous successful page-select, and never more than
\* one; an access that follows an access to the same page issues none.
C2_PageSelect ==
    (IsAccess(last) /\ last.log # << >>) =>
        /\ (SelIdx(last.log) # {}) <=> (PageOf(last.addr) # last.sel)
        /\ Cardinality(SelIdx(last.log)) <= 1
        /\ last.pp => SelIdx(last.log) = {}

\* An access to 0x14 right after an access to the same page: no page-select.
C2_Witness ==
    /\ last.op = "write" /\ last.addr = 20 /\ last.pp
    /\ SelIdx(last.log) = {} /\ Clean(last.log)

\* C3: with two switches, every data transfer of a call is made while the
\* switch the call addresses has the page of the call's register selected.
C3_IntendedPage ==
    \A i \in DataIdx(last.log) : last.log[i].page = PageOf(last.addr)

\* C4: the first bus transfer of every probe is a page-select.
C4_ProbeSelects ==
    last.op = "probe" => (last.log # << >> /\ last.log[1].kind = "sel")

(***************************************************************************)
(* Properties of the busy-waits.                                           *)
(***************************************************************************)
\* A busy-wait of the switch driver proper (qca8k.c) was the last call.
IsBusyWait(l) == l.op \in {"qca8k_busy_wait", "qca8k_mdio_busy_wait"}

\* The last call polled a pending command that never completes, and no
\* transfer failed: every read succeeded and showed the busy bit.
NeverClears(l) ==
    /\ l.op \in {"qca8k_busy_wait", "ipq4019_busy_wait"}
    /\ l.arg.pend /\ l.arg.E.plan = HwNever /\ NoFault(l.arg.E)

\* C5: qca8k_busy_wait (of qca8k.c and of qca8k-ipq4019.c) on a command
\* register whose busy bit never clears, every read succeeding, ends after the
\* poll that follows the deadline and returns -ETIMEDOUT, with the busy bit in
\* the value it read last.
C5_Timeout ==
    NeverClears(last) =>
        /\ last.ret = ETIMEDOUT
        /\ last.arg.polls = last.arg.E.texp + 1
        /\ And32(last.val, QCA8K_ATU_FUNC_BUSY) # Zero32

\* The deadline passed after two polls of a command that never completes.
C5_Witness ==
    /\ NeverClears(last) /\ last.op = "qca8k_busy_wait"
    /\ last.arg.E.texp = MaxPoll /\ last.arg.polls = MaxPoll + 1

\* C6: qca8k_busy_wait and qca8k_mdio_busy_wait return 0 only if their last
\* read succeeded and showed the busy bit clear, and return an error when
\* their last read failed.
C6_SuccessObserved ==
    IsBusyWait(last) =>
        /\ last.ret = 0 => (last.arg.ret1 = 0 /\ And32(last.val, Bit32(31)) = Zero32)
        /\ last.arg.ret1 < 0 => last.ret < 0

(***************************************************************************)
(* Properties of the FDB engine.  The trace last.ev of a dump holds, in    *)
(* order, the commands the switch was given ("cmd"), the result of each    *)
(* qca8k_fdb_next ("next") and each call of the visitor ("cb").            *)
(***************************************************************************)
EvIdx(ev, kind) == {i \in 1..Len(ev) : ev[i].kind = kind}

\* The calls of the visitor for (mac, vid) in a trace.
Visits(ev, mac, vid) == {i \in EvIdx(ev, "cb") : ev[i].mac = mac /\ ev[i].vid = vid}

\* The step is a dump of the port of the call before it, by a visitor that
\* never stops.
DumpFollows(op) ==
    /\ last.op = op /\ last.ret = 0
    /\ last'.op = "fdb_dump" /\ last'.arg.port = last.arg.port /\ last'.arg.stop = 0

\* C7: a dump of port p that follows a successful fdb_add of (mac, vid, p)
\* calls the visitor for (mac, vid) exactly once, as a static entry; a dump
\* that follows a successful fdb_del of (mac, vid) does not call it for
\* (mac, vid).
C7_AddDumpDel ==
    [][/\ DumpFollows("fdb_add") =>
              /\ Cardinality(Visits(last'.ev, last.arg.mac, last.arg.vid)) = 1
              /\ \A i \in Visits(last'.ev, last.arg.mac, last.arg.vid) :
                     last'.ev[i].is_static
       /\ DumpFollows("fdb_del") =>
              Visits(last'.ev, last.arg.mac, last.arg.vid) = {}]_vars

\* The last call was a dump all of whose table-walk steps succeeded with an
\* entry (aging # 0) and whose visitor never returned non-zero.
NoSentinel(l) ==
    /\ l.op = "fdb_dump"
    /\ \A i \in EvIdx(l.ev, "next") : l.ev[i].ret = 0 /\ l.ev[i].fdb.aging # 0
    /\ \A i \in EvIdx(l.ev, "cb") : l.ev[i].ret = 0

\* C8: a dump that never meets the sentinel makes exactly
\* QCA8K_NUM_FDB_RECORDS table-walk steps, gives the switch no more than that
\* many commands (exactly that many NEXT commands when no transfer fails), and
\* ends with reg_mutex released.
C8_Exhausts ==
    NoSentinel(last) =>
        /\ Cardinality(EvIdx(last.ev, "next")) = QCA8K_NUM_FDB_RECORDS
        /\ Cardinality(EvIdx(last.ev, "cmd")) <= QCA8K_NUM_FDB_RECORDS
        /\ NoFault(last.arg.E) =>
               /\ Cardinality(EvIdx(last.ev, "cmd")) = QCA8K_NUM_FDB_RECORDS
               /\ \A i \in EvIdx(last.ev, "cmd") : last.ev[i].cmd = QCA8K_FDB_NEXT
        /\ last.ev[Len(last.ev)].kind = "unlock"
        /\ ~hw[last.h].mutex

\* A dump of a port that has QCA8K_NUM_FDB_RECORDS entries, on a working bus.
C8_Witness ==
    /\ NoSentinel(last) /\ NoFault(last.arg.E)
    /\ Cardinality(EvIdx(last.ev, "cb")) = QCA8K_NUM_FDB_RECORDS

\* C9: a dump that ended because QCA8K_NUM_FDB_RECORDS steps elapsed without
\* the sentinel returns something else than the 0 of a dump that met the
\* sentinel.
C9_ExhaustedDistinct ==
    (NoSentinel(last) /\ Cardinality(EvIdx(last.ev, "next")) = QCA8K_NUM_FDB_RECORDS)
        => last.ret # 0

\* C10: in a dump, every call of the visitor directly follows a table-walk
\* step that succeeded with an entry of aging # 0, and is for that entry;
\* every such step is directly followed by a call of the visitor; and after a
\* step that read aging = 0, a step that failed, or a call of the visitor that
\* returned non-zero, nothing follows but the release of reg_mutex.
C10_VisitorOrder ==
    last.op = "fdb_dump" =>
        \A i \in 1..Len(last.ev) :
            /\ last.ev[i].kind = "cb" =>
                   /\ i > 1 /\ last.ev[i - 1].kind = "next"
                   /\ last.ev[i - 1].ret = 0 /\ last.ev[i - 1].fdb.aging # 0
                   /\ last.ev[i].mac = last.ev[i - 1].fdb.mac
                   /\ last.ev[i].vid = last.ev[i - 1].fdb.vid
            /\ (/\ last.ev[i].kind = "next"
                /\ last.ev[i].ret = 0 /\ last.ev[i].fdb.aging # 0) =>
                   (i < Len(last.ev) /\ last.ev[i + 1].kind = "cb")
            /\ (\/ /\ last.ev[i].kind = "next"
                   /\ (last.ev[i].ret # 0 \/ last.ev[i].fdb.aging = 0)
                \/ last.ev[i].kind = "cb" /\ last.ev[i].ret # 0) =>
                   \A j \in (i + 1)..Len(last.ev) : last.ev[j].kind = "unlock"

\* A dump whose visitor returned non-zero at its second call, with a third
\* entry left in the table.
C10_Witness ==
    /\ last.op = "fdb_dump" /\ last.arg.stop = 2 /\ NoFault(last.arg.E)
    /\ Cardinality(EvIdx(last.ev, "cb")) = 2
    /\ Cardinality({e \in hw[last.h].atu :
                       (e.port_mask \div 2^last.arg.port) % 2 = 1}) = 3

\* C12: a dump in which a table-walk step (qca8k_fdb_next) failed with a
\* transport or timeout error returns that error to its caller.
C12_DumpReturnsError ==
    (last.op = "fdb_dump")
        => \A i \in EvIdx(last.ev, "next") :
               last.ev[i].ret < 0 => last.ret = last.ev[i].ret

(***************************************************************************)
(* Properties of the table commands.                                       *)
(***************************************************************************)
\* The call issued the LOAD command of its table.
IssuedLoad(l) ==
    \/ l.op = "fdb_add" /\ \E i \in EvIdx(l.ev, "cmd") : l.ev[i].cmd = QCA8K_FDB_LOAD
    \/ l.op = "vlan_add" /\ \E i \in EvIdx(l.ev, "vtu") : l.ev[i].cmd = QCA8K_VLAN_LOAD

\* The function register of the call's table shows a completed command and
\* the table-full bit.
ShowsFull(l) ==
    Bind(HwReg(hw[l.h].regs, l.addr), LAMBDA f :
        /\ f[2] < 32768
        /\ And32(f, IF l.op = "fdb_add" THEN QCA8K_ATU_FUNC_FULL
                                        ELSE QCA8K_VTU_FUNC1_FULL) # Zero32)

\* C11: a fdb_add or vlan_add whose transfers succeeded and whose LOAD left
\* the table-full bit in the function register returns an error that is
\* neither 0 nor the timeout of the busy wait nor the transport error, and the
\* call issued one command of its table for the LOAD and no second one.
C11_FullIsDistinct ==
    (/\ last.op \in {"fdb_add", "vlan_add"}
     /\ IssuedLoad(last)
     /\ \A i \in 1..Len(last.log) : last.log[i].ok
     /\ ShowsFull(last))
        => /\ last.ret \notin {0, ETIMEDOUT, EIO}
           /\ last.ret = (IF last.op = "fdb_add" THEN -1 ELSE ENOMEM)
           /\ Cardinality({i \in EvIdx(last.ev, IF last.op = "fdb_add" THEN "cmd" ELSE "vtu") :
                              last.ev[i].cmd = QCA8K_FDB_LOAD}) = 1

\* A vlan_add refused by the full VLAN table, on a switch whose address table
\* had refused an address before.
C11_Witness ==
    /\ last.op = "vlan_add" /\ IssuedLoad(last) /\ ShowsFull(last)
    /\ last.ret = ENOMEM
    /\ Cardinality(DOMAIN hw[last.h].vtu) = MaxVlans
    /\ Cardinality(hw[last.h].atu) = QCA8K_NUM_FDB_RECORDS
    /\ And32(HwReg(hw[last.h].regs, QCA8K_REG_ATU_FUNC), QCA8K_ATU_FUNC_FULL) # Zero32

(***************************************************************************)
(* Properties of the VLAN engine.                                          *)
(***************************************************************************)
\* The egress mode of port q in the entry word e.
VtuMode(e, q) ==
    And32(Shr32(e, QCA8K_VTU_FUNC0_EG_MODE_S(q)), W(QCA8K_VTU_FUNC0_EG_MODE_MASK))[1]

\* What the switch h gives for vid: its entry, or the word of a READ miss.
VtuEntry(h, vid) == IF vid \in DOMAIN h.vtu THEN h.vtu[vid] ELSE h.miss

\* The ports an entry word holds as tagged or untagged members.
VtuMembers(e) ==
    {q \in 0..(QCA8K_NUM_PORTS - 1) :
        VtuMode(e, q) \in {QCA8K_VTU_FUNC0_EG_MODE_UNTAG, QCA8K_VTU_FUNC0_EG_MODE_TAG}}

VtuIssued(l, cmd, vid) ==
    {i \in EvIdx(l.ev, "vtu") : l.ev[i].cmd = cmd /\ l.ev[i].vid = vid}

\* C13: a vlan_add(p, vid, untagged) with vid # 0 that returns 0 leaves vid in
\* the table with the valid and IVL bits, port p untagged or tagged as asked,
\* and every other port q in the egress mode the switch held for (vid, q)
\* before the call; the entries of the other VLAN ids are as before.
C13_MergeOnly ==
    [][(last'.op = "vlan_add" /\ last'.arg.vid # 0 /\ last'.ret = 0) =>
          /\ last'.arg.vid \in DOMAIN hw'[last'.h].vtu
          /\ And32(hw'[last'.h].vtu[last'.arg.vid], QCA8K_VTU_FUNC0_VALID) # Zero32
          /\ And32(hw'[last'.h].vtu[last'.arg.vid], QCA8K_VTU_FUNC0_IVL_EN) # Zero32
          /\ VtuMode(hw'[last'.h].vtu[last'.arg.vid], last'.arg.port)
                 = IF last'.arg.untagged THEN QCA8K_VTU_FUNC0_EG_MODE_UNTAG
                   ELSE QCA8K_VTU_FUNC0_EG_MODE_TAG
          /\ \A q \in 0..(QCA8K_NUM_PORTS - 1) \ {last'.arg.port} :
                 VtuMode(hw'[last'.h].vtu[last'.arg.vid], q)
                     = VtuMode(VtuEntry(hw[last'.h], last'.arg.vid), q)
          /\ \A v \in (DOMAIN hw[last'.h].vtu \cup DOMAIN hw'[last'.h].vtu)
                        \ {last'.arg.vid} :
                 /\ v \in DOMAIN hw[last'.h].vtu /\ v \in DOMAIN hw'[last'.h].vtu
                 /\ hw'[last'.h].vtu[v] = hw[last'.h].vtu[v]]_vars

\* Port 2 was added tagged to VLAN 2, which holds port 1 untagged.
C13_Witness ==
    /\ last.op = "vlan_add" /\ last.ret = 0
    /\ last.arg.vid = 2 /\ last.arg.port = 2 /\ ~last.arg.untagged
    /\ 2 \in DOMAIN hw[last.h].vtu
    /\ VtuMode(hw[last.h].vtu[2], 1) = QCA8K_VTU_FUNC0_EG_MODE_UNTAG
    /\ VtuMode(hw[last.h].vtu[2], 2) = QCA8K_VTU_FUNC0_EG_MODE_TAG

\* C14: a vlan_del(p, vid) that returns 0, of a VLAN id the table holds: when
\* p is the only tagged or untagged member, the switch is given a PURGE of
\* vid and no LOAD, and vid is not in the table afterwards; when another port
\* is a member, the switch is given a LOAD of vid, and afterwards the other
\* ports have the egress modes they had.
C14_PurgeLast ==
    [][(/\ last'.op = "vlan_del" /\ last'.ret = 0
        /\ last'.arg.vid \in DOMAIN hw[last'.h].vtu
        /\ last'.arg.port \in VtuMembers(hw[last'.h].vtu[last'.arg.vid])) =>
          IF VtuMembers(hw[last'.h].vtu[last'.arg.vid]) = {last'.arg.port}
          THEN /\ VtuIssued(last', QCA8K_VLAN_PURGE, last'.arg.vid) # {}
               /\ VtuIssued(last', QCA8K_VLAN_LOAD, last'.arg.vid) = {}
               /\ last'.arg.vid \notin DOMAIN hw'[last'.h].vtu
          ELSE /\ VtuIssued(last', QCA8K_VLAN_LOAD, last'.arg.vid) # {}
               /\ last'.arg.vid \in DOMAIN hw'[last'.h].vtu
               /\ \A q \in 0..(QCA8K_NUM_PORTS - 1) \ {last'.arg.port} :
                      VtuMode(hw'[last'.h].vtu[last'.arg.vid], q)
                          = VtuMode(hw[last'.h].vtu[last'.arg.vid], q)]_vars

\* C15: no call gives the switch a LOAD of VLAN id 0, and the table never
\* holds VLAN id 0.
C15_NoVidZero ==
    /\ VtuIssued(last, QCA8K_VLAN_LOAD, 0) = {}
    /\ \A h \in Handles : 0 \notin DOMAIN hw[h].vtu

(***************************************************************************)
(* Properties of the ports: bridges, STP state and MTU.                    *)
(***************************************************************************)
\* The members of port p in the switch h: bits 6:0 of its lookup register.
Members(h, p) == HwReg(h.regs, QCA8K_PORT_LOOKUP_CTRL(p))[1] % 128

\* The other user ports of the bridge of port p.
BridgeMates(h, p) ==
    {q \in UserPorts \ {p} : h.bridge_dev[p] # 0 /\ h.bridge_dev[q] = h.bridge_dev[p]}

\* Every user port's members are the CPU port and its bridge mates.
MasksFollowBridges(h) ==
    \A p \in UserPorts : Members(h, p) = PortMask({QCA8K_CPU_PORT} \cup BridgeMates(h, p), 0)

\* A transfer of the call failed.
Failed(l) == \E i \in 1..Len(l.log) : ~l.log[i].ok

\* C16: after a setup that returned 0 every user port's members are the CPU
\* port alone (no port is in a bridge), and a bridge_join that returns 0 or a
\* bridge_leave, made when every user port's members are the CPU port and the
\* other user ports of its bridge, leaves them so; hence q is a member of p
\* iff p is a member of q.
C16_MasksFollow ==
    [][/\ (last'.op = "setup" /\ last'.ret = 0) => MasksFollowBridges(hw'[1])
       /\ (/\ last'.op \in {"bridge_join", "bridge_leave"} /\ last'.ret = 0
           /\ MasksFollowBridges(hw[1]))
              => /\ MasksFollowBridges(hw'[1])
                 /\ \A p, q \in UserPorts :
                        p # q => ((Members(hw'[1], p) \div 2^q) % 2
                                     = (Members(hw'[1], q) \div 2^p) % 2)]_vars

\* C17: after a setup that returned 0 the members of the CPU port are the
\* user ports, and no bridge_join or bridge_leave changes them.
C17_CpuMembers ==
    [][/\ (last'.op = "setup" /\ last'.ret = 0)
              => Members(hw'[1], QCA8K_CPU_PORT) = PortMask(UserPorts, 0)
       /\ (last'.op \in {"bridge_join", "bridge_leave"})
              => Members(hw'[1], QCA8K_CPU_PORT) = Members(hw[1], QCA8K_CPU_PORT)]_vars

\* C18: a bridge_join in which a transfer of a register update failed
\* returns the error, the failed transfer being its last; the bit of the
\* joining port stays in the members of the ports updated before, and no other
\* port is added to the members of the joining port.
C18_JoinFailsAtOnce ==
    [][(last'.op = "bridge_join" /\ Failed(last'))
          => /\ last'.ret = EIO
             /\ ~last'.log[Len(last'.log)].ok
             /\ \A q \in UserPorts \ {last'.arg.port} :
                    /\ Members(hw'[1], q) \in
                           {Members(hw[1], q), BitOr(Members(hw[1], q), 2^(last'.arg.port))}
                    /\ (Members(hw'[1], last'.arg.port) \div 2^q) % 2
                           = (Members(hw[1], last'.arg.port) \div 2^q) % 2]_vars

\* C19: after a change_mtu that returned 0 the frame-size register holds the
\* largest of the stored MTUs of all ports plus ETH_HLEN + ETH_FCS_LEN.
C19_FrameSizeIsMax ==
    (last.op = "change_mtu" /\ last.ret = 0)
        => HwReg(hw[1].regs, QCA8K_MAX_FRAME_SIZE)
               = W(MaxMtu(hw[1].port_mtu, 0, 0) + ETH_HLEN + ETH_FCS_LEN)

\* The lookup register of port p with its state field replaced.
WithState(reg, state) ==
    Or32(And32(reg, Not32(QCA8K_PORT_LOOKUP_STATE_MASK)), StpState(state))

\* C20: stp_state_set(p, s) changes nothing in the switch but bits 18:16 of
\* the lookup register of p, which become the encoding of s (FORWARD for a
\* state that is none of the five); members, learning bit and VLAN mode of p
\* and every other register stay; a second call with the same p and s changes
\* nothing.
C20_StpOnlyState ==
    [][(last'.op = "stp_state_set")
          => Bind(QCA8K_PORT_LOOKUP_CTRL(last'.arg.port), LAMBDA a :
               /\ HwReg(hw'[1].regs, a) = WithState(HwReg(hw[1].regs, a), last'.arg.state)
               /\ Shr32(And32(HwReg(hw'[1].regs, a), QCA8K_PORT_LOOKUP_STATE_MASK), 16)[1]
                      = (CASE last'.arg.state = BR_STATE_DISABLED -> 0
                           [] last'.arg.state = BR_STATE_BLOCKING -> 1
                           [] last'.arg.state = BR_STATE_LISTENING -> 2
                           [] last'.arg.state = BR_STATE_LEARNING -> 3
                           [] OTHER -> 4)
               /\ \A l \in (DOMAIN hw[1].regs \cup DOMAIN hw'[1].regs) \ {LoLoc(a), HiLoc(a)} :
                      RegGet(hw'[1].regs, l) = RegGet(hw[1].regs, l)
               /\ [hw'[1] EXCEPT !.regs = hw[1].regs] = hw[1]
               /\ (last.op = "stp_state_set" /\ last.arg.port = last'.arg.port
                   /\ last.arg.state = last'.arg.state) => hw' = hw)]_vars

\* The state of a port that is in a bridge with the other, has learning on
\* and was forwarding is set to blocking.
C20_Witness ==
    /\ last.op = "stp_state_set" /\ last.arg.state = BR_STATE_BLOCKING
    /\ HwReg(hw[1].regs, QCA8K_PORT_LOOKUP_CTRL(last.arg.port))
           = Or32(Or32(QCA8K_PORT_LOOKUP_STATE_BLOCKING, QCA8K_PORT_LOOKUP_LEARN),
                  W(PortMask({QCA8K_CPU_PORT} \cup (StpPorts \ {last.arg.port}), 0)))
    /\ \E q \in StpPorts \ {last.arg.port} :
           And32(HwReg(hw[1].regs, QCA8K_PORT_LOOKUP_CTRL(q)),
                 QCA8K_PORT_LOOKUP_STATE_MASK) = QCA8K_PORT_LOOKUP_STATE_FORWARD

(***************************************************************************)
(* Properties of the MDIO master.                                          *)
(***************************************************************************)
IsPhy(l) == l.op \in {"phy_read", "phy_write"}

\* The call's last two transfers are the writes of the two words of the MDIO
\* master control register, made with the page of that register selected.
EndsWithClear(log) ==
    /\ Len(log) >= 2
    /\ \A k \in 0..1 : Bind(log[Len(log) - 1 + k], LAMBDA e :
           e.kind = "w" /\ e.arg = MdioReg + k /\ e.page = MdioPage)

\* C24: a phy_read or phy_write with regnum below QCA8K_MDIO_MASTER_MAX_REG
\* ends with the write of the MDIO master control register, after which the
\* register holds 0 (unless that last write itself fails on the bus),
\* whatever the busy-wait gave; with a regnum from
\* QCA8K_MDIO_MASTER_MAX_REG on the call makes no transfer and gives the
\* error (-EINVAL, as phy_read hands it on: 0xffff).
C24_MasterCleared ==
    IsPhy(last) =>
        IF last.arg.regnum >= QCA8K_MDIO_MASTER_MAX_REG
        THEN last.log = << >> /\ last.ret = (IF last.op = "phy_read" THEN 65535 ELSE EINVAL)
        ELSE /\ last.log # << >>
             /\ last.log[Len(last.log)].ok
                    => /\ EndsWithClear(last.log)
                       /\ HwReg(hw[1].regs, QCA8K_MDIO_MASTER_CTRL) = Zero32


(***************************************************************************)
(* Properties of the attach.                                               *)
(***************************************************************************)
IsSetup(l) == l.op = "setup"

ExternalPorts(dt) == dt.user \cap dt.ext

InternalPorts(dt) == dt.user \ dt.ext

\* C25: a setup whose user ports mix ports with an external PHY and ports
\* with an internal one, or whose device tree has no user port, returns
\* -EINVAL without a single bus transfer, that is before any forwarding or
\* port register is programmed, and installs no phy_read / phy_write; a setup
\* whose user ports all have external PHYs starts with the read-modify-write
\* of the MDIO master control register, leaves its enable bit clear when no
\* transfer of the setup failed, and installs no phy_read / phy_write
\* operation (these are installed only with the legacy mapping).
C25_PhyStyles ==
    IsSetup(last) =>
        LET dt == last.arg.dt
            ext == ExternalPorts(dt)
            int == InternalPorts(dt)
        IN  /\ (ext = {}) = (int = {})
                => /\ last.ret = EINVAL
                   /\ last.log = << >>
                   /\ ~hw[1].legacy_phy_port_mapping
            /\ (ext # {} /\ int = {})
                => /\ ~hw[1].legacy_phy_port_mapping
                   /\ last.log # << >>
                   /\ \A k \in 1..Len(last.log) :
                          last.log[k].kind # "sel"
                          /\ (\A j \in 1..(k - 1) : last.log[j].kind = "sel")
                          => last.log[k].kind = "r" /\ last.log[k].arg = MdioReg
                   /\ Clean(last.log) => last.ret = 0 /\ ~MasterEnabled(hw[1])
            /\ hw[1].legacy_phy_port_mapping
                => ext = {} /\ int # {} /\ ~dt.mdio

\* a setup with mixed PHY styles, or without user ports, has been refused
C25_Witness_Refused ==
    /\ IsSetup(last)
    /\ ExternalPorts(last.arg.dt) # {}
    /\ InternalPorts(last.arg.dt) # {}
    /\ last.ret = EINVAL

\* a setup with external PHYs only has cleared an enabled MDIO master
C25_Witness_External ==
    /\ IsSetup(last)
    /\ ExternalPorts(last.arg.dt) # {}
    /\ InternalPorts(last.arg.dt) = {}
    /\ last.ret = 0
    /\ last.arg.en
    /\ ~MasterEnabled(hw[1])

\* The step of the setup that the failing transfer of the call belongs to.
FailsIn(l, from, to) == \E k \in l.arg.E.F : from < k /\ k <= to

\* C28: a setup one of whose transfers fails while it enables the CPU port
\* or the header mode of the CPU port returns an error and makes no transfer
\* after the failing one; a setup one of whose transfers fails during the
\* initialisation of the MIB counters goes on with the steps that follow and
\* returns 0.
C28_FatalSteps ==
    IsSetup(last) =>
        Bind(last.arg.steps, LAMBDA st :
            /\ FailsIn(last, st.mdio, st.cpu) \/ FailsIn(last, st.mib, st.hdr)
                   => last.ret # 0 /\ last.arg.E.F = {Len(last.log)}
            /\ FailsIn(last, st.cpu, st.mib)
                   => last.ret = 0 /\ Len(last.log) > st.hdr)

(***************************************************************************)
(* Properties of the two transports.                                       *)
(***************************************************************************)
IsUpdate(l) == l.op = "update"

\* No transfer of the call failed.
NoFailure(l) == \A k \in l.arg.E.F : k > l.arg.n

\* What the contract leaves in a register that held old.
Updated(fn, old, mask, val) ==
    IF fn = "rmw" THEN Or32(And32(old, Not32(mask)), val)
    ELSE IF fn = "reg_set" THEN Or32(old, val)
    ELSE And32(old, Not32(val))

IsStats(l) == l.op = "get_ethtool_stats"

\* The reads of counter i were made and none of them failed.
ReadOk(l, i) ==
    /\ Len(l.arg.rets[i + 1]) = ar8327_mib[i + 1][1]
    /\ \A k \in 1..Len(l.arg.rets[i + 1]) : l.arg.rets[i + 1][k] >= 0

\* What the switch holds in counter i of a port, as a uint64_t.
HwCounter(h, port, i) ==
    <<HwReg(h.regs, MibReg(port, i)),
      IF ar8327_mib[i + 1][1] = 2 THEN HwReg(h.regs, MibReg(port, i) + 4) ELSE Zero32>>

\* C27: qca8k_get_ethtool_stats tries every counter of the table, whatever
\* reads failed before; the slot of a counter whose reads succeeded holds the
\* counter's register, with the register that follows it as the upper 32
\* bits for a 2-register counter, and the slot of a counter one of whose
\* reads failed holds what it held before the call.
C27_BestEffort ==
    IsStats(last) =>
        /\ Len(last.arg.rets) = Len(ar8327_mib)
        /\ \A i \in MibIdx :
               last.arg.data[i + 1] = IF ReadOk(last, i)
                                      THEN HwCounter(hw[1], last.arg.port, i)
                                      ELSE last.arg.data0[i + 1]

\* the upper read of a 2-register counter failed, its slot is untouched and
\* the counters after it, another 2-register counter among them, are stored
C27_Witness ==
    /\ IsStats(last)
    /\ \E i \in MibIdx :
           /\ Len(last.arg.rets[i + 1]) = 2
           /\ last.arg.rets[i + 1][1] = 0
           /\ last.arg.rets[i + 1][2] < 0
           /\ last.arg.data[i + 1] = Stale
           /\ last.arg.data[i + 2] = <<CountLo(last.arg.port, i + 1, 2),
                                       CountHi(last.arg.port, i + 1, 2)>>
           /\ \A j \in MibIdx \ {i} : last.arg.data[j + 1] # Stale

(***************************************************************************)
(* Properties of phylink.                                                  *)
(***************************************************************************)
\* The call was made for an interface mode the variant does not support on
\* the port.
Unsupported(l) == l.arg.interface \notin VariantSupported(l.arg.variant, l.arg.port)

\* C26: for a port and an interface mode outside the set the variant of the
\* driver supports on that port, phylink_validate leaves no link mode in
\* supported and makes no bus transfer, and phylink_mac_config makes no bus
\* transfer and leaves every register as it was.
C26_UnsupportedMode ==
    /\ last.op = "phylink_validate"
           => /\ last.log = << >>
              /\ Unsupported(last) => last.arg.supported = {}
    /\ (last.op = "phylink_mac_config" /\ Unsupported(last)) => last.log = << >>

C26_NoWrite ==
    [][(last'.op = "phylink_validate"
           \/ (last'.op = "phylink_mac_config" /\ Unsupported(last')))
          => hw' = hw /\ qca8k_current_page' = qca8k_current_page]_vars

\* SGMII has been asked of a user port of the memory-mapped variant, whose
\* ports 1 to 5 support PSGMII only, after the 2nd CPU port of the other
\* variant was configured for SGMII
C26_Witness ==
    /\ last.op = "phylink_validate"
    /\ last.arg.variant = "ipq4019"
    /\ last.arg.port = 1
    /\ last.arg.interface = "SGMII"
    /\ last.arg.supported = {}
    /\ And32(HwReg(hw[1].regs, QCA8K_REG_PORT6_PAD_CTRL), QCA8K_PORT_PAD_SGMII_EN) # Zero32

(***************************************************************************)
(* Properties of the PSGMII calibration.                                   *)
(***************************************************************************)
IsCalb(l) == l.op = "ipq4019_probe" /\ l.arg.mac_mode = PORT_WRAPPER_PSGMII

\* The steps of the calibration loop among the steps of the probe.
CycleSteps(ev) == SelectSeq(ev, LAMBDA e : e \in {"psgmii_ess_reset", "all"})

Min(a, b) == IF a < b THEN a ELSE b

\* The number of cycles that ended with a PHY that failed.
FailedCycles(status) == Cardinality({j \in 1..Len(status) : status[j] # {}})

\* C30: the calibration loop of the probe makes at most
\* AR40XX_PSGMII_CALB_NUM cycles, every cycle but the last one has a PHY
\* that failed a test, the last one has none unless the cycles are used up,
\* so the loop stops at the first cycle the SerDes passes; each failed
\* cycle is followed by a SerDes reset; and whether it recovered or not the
\* probe returns 0 after the clean-up (no MAC loopback and no broadcast
\* write left), the two PSGMII writes, reset_control_put and the scheduling
\* of the registration.
C30_Calibration ==
    IsCalb(last) =>
        Bind(last.arg.k, LAMBDA k :
            /\ Len(k.status) = Min(last.arg.hwp.good + 1, AR40XX_PSGMII_CALB_NUM)
            /\ \A j \in 1..Len(k.status) : (k.status[j] # {}) <=> (j <= last.arg.hwp.good)
            /\ CycleSteps(k.ev)
                   = <<"psgmii_ess_reset">>
                        \o [j \in 1..(Len(k.status) + FailedCycles(k.status)) |->
                               IF j % 2 = 1 THEN "all" ELSE "psgmii_ess_reset"]
            /\ k.resets = 1 + FailedCycles(k.status)
            /\ last.ret = 0
            /\ SubSeq(k.ev, Len(k.ev) - 5, Len(k.ev))
                   = <<"recover", "clean", "psgmii_write", "psgmii_write",
                       "reset_control_put", "schedule_delayed_work">>
            /\ k.loopback = {} /\ k.bcast = {})

\* The SerDes never passed: every cycle was used and failed, and the probe
\* went on.
C30_Witness ==
    /\ IsCalb(last)
    /\ Len(last.arg.k.status) = AR40XX_PSGMII_CALB_NUM
    /\ last.arg.k.status[AR40XX_PSGMII_CALB_NUM] # {}
    /\ last.arg.k.resets = AR40XX_PSGMII_CALB_NUM + 1
    /\ last.ret = 0

\* The PHYs whose counters of test in cycle j are not the injected count
\* with no error.
BadPhys(hwp, j, test) ==
    IF j <= hwp.good /\ test = hwp.test /\ hwp.cnt # GoodCounters THEN hwp.phys ELSE {}

\* C31: at the end of every cycle of the loopback self-test phy_t_status
\* has the bit of the single test (bit phy) and of the aggregate test
\* (bit phy + 8) of exactly the PHYs whose TX-ok or RX-ok counter differed
\* from the injected packet count or whose TX or RX error counter was not
\* zero.
C31_BothDirections ==
    IsCalb(last) =>
        \A j \in 1..Len(last.arg.k.status) :
            last.arg.k.status[j]
                = BadPhys(last.arg.hwp, j, "single")
                    \cup {phy + 8 : phy \in BadPhys(last.arg.hwp, j, "all")}

C32_NoRescheduling ==
    [][hw'[2].dsa_init.tries > hw[2].dsa_init.tries
          => /\ hw[2].dsa_init.pending
             /\ hw[2].dsa_init.tries > 0 => hw[2].dsa_init.ret = EPROBE_DEFER]_vars

InTable(th) == th.op \in TableOps /\ th.pc \notin {"idle", "lock", "ret"}

\* C21: two threads are never both inside a table operation of one handle;
\* a thread inside one holds reg_mutex from before its first access of a
\* staging register until after its command and read-back, and a thread
\* that reached its return, with an error or without, holds it no more.
C21_Serialized ==
    /\ \A t \in Threads, u \in Threads : t # u => ~(InTable(thr[t]) /\ InTable(thr[u]))
    /\ \A t \in Threads :
          /\ InTable(thr[t]) => Holds(thr[t], "reg_mutex") /\ hw[1].mutex
          /\ thr[t].pc \in {"ret", "idle"} => ~Holds(thr[t], "reg_mutex")
    /\ (\A t \in Threads : ~InTable(thr[t])) => ~hw[1].mutex

\* A thread waits at its mutex_lock while the other one, whose command never
\* completed, is on its way out with the timeout and still has the mutex.
C21_Witness ==
    /\ thr[1].op \in TableOps /\ thr[1].pc = "lock"
    /\ thr[2].op = "vlan_add" /\ thr[2].pc = "unlock" /\ thr[2].ret = ETIMEDOUT
    /\ hw[1].mutex

\* Both threads have returned from a change_mtu that returned 0.
BothReturned ==
    \A t \in Threads : /\ thr[t].op = "idle" /\ thr[t].done = "change_mtu"
                       /\ thr[t].dret = 0

\* C22: once two change_mtu calls for different ports that ran at the same
\* time have both returned, the frame-size register holds the largest
\* stored port MTU plus ETH_HLEN + ETH_FCS_LEN.
C22_MaxFrame ==
    BothReturned =>
        HwReg(hw[1].regs, QCA8K_MAX_FRAME_SIZE)
            = W(MaxMtu(hw[1].port_mtu, 0, 0) + ETH_HLEN + ETH_FCS_LEN)

\* C23: a thread that holds the bus lock and reg_mutex took the bus lock
\* first.
C23_BusOuter ==
    \A t \in Threads :
        (Holds(thr[t], "mdio_lock") /\ Holds(thr[t], "reg_mutex"))
            => thr[t].held = <<"mdio_lock", "reg_mutex">>

\* C23, as the code has it: a thread that holds the bus lock and reg_mutex
\* took reg_mutex first and the bus lock inside it, and a thread never waits
\* for reg_mutex with the bus lock in its hands.
C23_HandleOuter ==
    \A t \in Threads :
        /\ (Holds(thr[t], "mdio_lock") /\ Holds(thr[t], "reg_mutex"))
              => thr[t].held = <<"reg_mutex", "mdio_lock">>
        /\ thr[t].pc = "lock" => ~Holds(thr[t], "mdio_lock")

\* One thread holds both locks inside its fdb_add while the other one has
\* the bus lock of a PHY read in its hands.
C23_Witness ==
    /\ thr[1].op = "fdb_add" /\ thr[1].held = <<"reg_mutex">>
    /\ thr[1].pc = "fdb_access"
    /\ thr[2].op = "phy_read" /\ thr[2].held = <<"mdio_lock">>

\* Thread t cannot go on before thread u gives a lock back: t is at its
\* mutex_lock and u has reg_mutex, or t is about to call a register accessor
\* and u is inside one, with the bus lock.
WaitsFor(t, u) ==
    /\ thr[t].pc \notin {"idle", "ret"}
    /\ ~Holds(thr[t], "mdio_lock")
    /\ \/ thr[t].pc = "lock" /\ Holds(thr[u], "reg_mutex")
       \/ UsesBus(thr[t].pc) /\ Holds(thr[u], "mdio_lock")

\* C34: no two threads wait for each other over reg_mutex and the bus lock
\* and no thread waits for a lock of its own; a thread that returned holds
\* no lock, and the mutex is taken exactly while a thread holds it.
C34_NoCycleAllReleased ==
    /\ \A t \in Threads, u \in Threads : ~(WaitsFor(t, u) /\ WaitsFor(u, t))
    /\ \A t \in Threads :
          /\ thr[t].pc = "ret" => ~Holds(thr[t], "reg_mutex")
          /\ thr[t].pc = "idle" => thr[t].held = << >>
    /\ hw[1].mutex <=> \E t \in Threads : Holds(thr[t], "reg_mutex")

\* A PHY read waits for the bus lock that the other thread took inside its
\* table operation, under reg_mutex.
C34_Witness ==
    /\ thr[1].op = "phy_read" /\ thr[1].pc = "mdio_read" /\ thr[1].held = << >>
    /\ thr[2].op \in TableOps /\ thr[2].held = <<"reg_mutex", "mdio_lock">>
    /\ WaitsFor(1, 2)

\* C35: every data write that a phy_read or phy_write puts on the bus is a
\* write of one of the two words of the MDIO master control register, made
\* while the switch has the page of that register selected.
C35_WritesOnMasterPage ==
    IsPhy(last) =>
        \A i \in 1..Len(last.log) :
            last.log[i].kind = "w"
                => /\ last.log[i].page = MdioPage
                   /\ last.log[i].arg \in {MdioReg, MdioReg + 1}

\* The data writes of a call's log.
DataWrites(log) == SelectSeq(log, LAMBDA e : e.kind = "w")

\* C36: a qca8k_write or qca8k_rmw that returns 0 has made the bus writes of
\* both words of the value and neither of them failed.
C36_ZeroMeansWritten ==
    (last.op \in {"write", "rmw"} /\ last.ret = 0) =>
        /\ Len(DataWrites(last.log)) = 2
        /\ \A i \in 1..2 : DataWrites(last.log)[i].ok

\* C37: in every state from the end of the setup on, before the first
\* change_mtu too, the frame-size register holds the largest of the stored
\* MTUs of all ports plus ETH_HLEN + ETH_FCS_LEN.
C37_FrameSizeFromSetup ==
    Registered(1) =>
        HwReg(hw[1].regs, QCA8K_MAX_FRAME_SIZE)
            = W(MaxMtu(hw[1].port_mtu, 0, 0) + ETH_HLEN + ETH_FCS_LEN)

MacOn(bits) == And32(bits, Or32(QCA8K_PORT_STATUS_TXMAC, QCA8K_PORT_STATUS_RXMAC)) # Zero32

\* C38: after a suspend followed by a resume the MAC TX/RX enable and
\* link-auto bits of every port are what they were just before the suspend,
\* and no port whose enabled flag is clear has had its MAC turned on.
C38_ResumeRestores ==
    (last.op = "resume") =>
        \A p \in 0..(QCA8K_NUM_PORTS - 1) :
            /\ StatusBits(hw[1].regs)[p] = last.arg.before[p]
            /\ (~hw[1].port_sts[p] /\ MacOn(StatusBits(hw[1].regs)[p]))
                   => MacOn(last.arg.before[p])

\* C38, second half: a resume leaves the status register of every port
\* whose enabled flag is clear as the suspend found it.
C38_DisabledUntouched ==
    (last.op = "resume") =>
        \A p \in 0..(QCA8K_NUM_PORTS - 1) :
            ~hw[1].port_sts[p] => StatusBits(hw[1].regs)[p] = last.arg.before[p]

\* Both threads have returned from a bridge_join that returned 0.
BothJoined ==
    \A t \in Threads : /\ thr[t].op = "idle" /\ thr[t].done = "bridge_join"
                       /\ thr[t].dret = 0

\* C33: once two bridge_join calls that brought ports 1 and 2 into the same
\* bridge at the same time have both returned, each of the two ports has
\* the other one and the CPU port in its membership mask.
C33_JoinSymmetric ==
    BothJoined =>
        /\ BitAnd(Members(hw[1], 1), 2^2 + 2^QCA8K_CPU_PORT) = 2^2 + 2^QCA8K_CPU_PORT
        /\ BitAnd(Members(hw[1], 2), 2^1 + 2^QCA8K_CPU_PORT) = 2^1 + 2^QCA8K_CPU_PORT

\* Thread 1 has returned from stp_state_set(1, state) and thread 2 from a
\* bridge_join of port 2 that returned 0.
BothUpdated ==
    /\ thr[1].op = "idle" /\ thr[1].done = "stp_state_set"
    /\ thr[2].op = "idle" /\ thr[2].done = "bridge_join" /\ thr[2].dret = 0

\* C39: once a stp_state_set of port 1 and a bridge_join of port 2 into the
\* bridge of port 1 that ran at the same time have both returned, the
\* lookup control register of port 1 has the new state in its state field
\* and the member bit of port 2.
C39_NoLostUpdate ==
    BothUpdated =>
        Bind(HwReg(hw[1].regs, QCA8K_PORT_LOOKUP_CTRL(1)), LAMBDA reg :
            /\ And32(reg, QCA8K_PORT_LOOKUP_STATE_MASK) = StpState(thr[1].da.state)
            /\ And32(reg, Bit32(2)) = Bit32(2))

\* Both calls have returned and the port is blocking.
C39_Witness ==
    /\ BothUpdated
    /\ thr[1].da.state = BR_STATE_BLOCKING
    /\ And32(HwReg(hw[1].regs, QCA8K_PORT_LOOKUP_CTRL(1)), QCA8K_PORT_LOOKUP_STATE_MASK)
           = QCA8K_PORT_LOOKUP_STATE_BLOCKING
====
